---- MODULE Spec2Model ----
(***************************************************************************)
(* A model of form_converter.py: the ten table transformations that turn   *)
(* a SurveyCTO XLSForm into a Kobo XLSForm, and the Streamlit wizard that  *)
(* applies them step by step.                                              *)
(*                                                                         *)
(* Text is a sequence of atoms.  An atom is one character ("a", "!", " ")  *)
(* or one word the code only ever tests as a whole ("select_one",          *)
(* "sGovernorate"); no atom is the concatenation of other atoms, so two    *)
(* different sequences are two different Python strings.  A cell of a      *)
(* DataFrame is a record: a string, the float NaN, or None.  A DataFrame   *)
(* is its ordered column names, its index labels and its rows.             *)
(***************************************************************************)
EXTENDS Integers, Sequences, FiniteSets, TLC

VARIABLES
    stage,      \* the stage function being called
    arg0,       \* value of the argument table when the call was made
    arg,        \* the argument object (as the callee leaves it)
    ret,        \* the table the call returned
    same,       \* TRUE when the returned object is the argument object
    pc,         \* "call", "returned" or "raised"
    name_arg,   \* the form name handed to fix_settings_sheet
    session_state,  \* st.session_state: the keys it has and their values
    uploads,    \* the files uploaded since the session was fresh
    uploader    \* the CSV file an uploader of the shown step holds, and its edit

vars == <<stage, arg0, arg, ret, same, pc, name_arg, session_state, uploads, uploader>>

-----------------------------------------------------------------------------
(* Bounds *)

MaxRows == 3          \* rows of a table drawn over one varying column
MaxWideRows == 2      \* rows of a table drawn over several varying columns
MaxMarkerRows == 4    \* rows of a table of begin/end markers
MaxUploads == 2       \* files uploaded between two fresh sessions
MaxOtherRows == 1     \* rows that are no marker, among the five markers of a table

-----------------------------------------------------------------------------
(* Cells and tables *)

Str(s) == [k |-> "str", v |-> s]
NaN == [k |-> "nan", v |-> <<>>]
None == [k |-> "none", v |-> <<>>]
Empty == Str(<<>>)

Range(s) == {s[i] : i \in DOMAIN s}

Cols(df) == Range(df.columns)

NRows(df) == Len(df.rows)

DataFrame(columns, rows) ==
    [columns |-> columns, index |-> [i \in 1..Len(rows) |-> i - 1], rows |-> rows]

NoTable == DataFrame(<<>>, <<>>)

Column(df, c) == [i \in 1..NRows(df) |-> df.rows[i][c]]

\* df[c] = vals : an existing column is overwritten, a new one goes last
SetColumn(df, c, vals) ==
    [df EXCEPT
        !.columns = IF c \in Cols(df) THEN @ ELSE Append(@, c),
        !.rows = [i \in 1..NRows(df) |->
                    [x \in Cols(df) \cup {c} |->
                        IF x = c THEN vals[i] ELSE df.rows[i][x]]]]

\* df.at[idx, c] = v, idx the label of row i
SetAt(df, i, c, v) == [df EXCEPT !.rows[i][c] = v]

\* df.drop(columns = drop, errors = 'ignore')
DropColumns(df, drop) ==
    [df EXCEPT
        !.columns = SelectSeq(@, LAMBDA c : c \notin drop),
        !.rows = [i \in 1..NRows(df) |->
                    [x \in Cols(df) \ drop |-> df.rows[i][x]]]]

\* What a call leaves behind: the argument object, the returned table, and
\* whether the two are one object.
Returned(df, out, alias) == [raised |-> FALSE, df |-> df, ret |-> out, same |-> alias]
Raised(df) == [raised |-> TRUE, df |-> df, ret |-> NoTable, same |-> FALSE]

-----------------------------------------------------------------------------
(* Utility functions *)

is_empty(value) == value.k = "nan" \/ value.k = "none" \/ value.v = <<>>

UpperCase == <<"A","B","C","D","E","F","G","H","I","J","K","L","M",
               "N","O","P","Q","R","S","T","U","V","W","X","Y","Z">>
LowerCase == <<"a","b","c","d","e","f","g","h","i","j","k","l","m",
               "n","o","p","q","r","s","t","u","v","w","x","y","z">>
Digit == <<"0","1","2","3","4","5","6","7","8","9">>

\* str.lower(), one character
lower(c) ==
    IF c \in Range(UpperCase)
    THEN LowerCase[CHOOSE i \in DOMAIN UpperCase : UpperCase[i] = c]
    ELSE c

RECURSIVE IntToStr(_)
IntToStr(n) ==
    IF n < 10 THEN <<Digit[n + 1]>>
    ELSE Append(IntToStr(n \div 10), Digit[(n % 10) + 1])

normalize_name(name) ==
    IF is_empty(name) THEN <<>>
    ELSE LET lowered == [i \in DOMAIN name.v |-> lower(name.v[i])]
             replaced == [i \in DOMAIN lowered |->
                            IF lowered[i] = " " THEN "_" ELSE lowered[i]]
         IN SelectSeq(replaced,
                LAMBDA c : c \in Range(LowerCase) \cup Range(Digit) \cup {"_"})

-----------------------------------------------------------------------------
(* ensure_unique_names *)

\* The loop with a suffix for the first row of a base too: base_0
RECURSIVE unique_names_loop_suffixed(_, _, _, _)
unique_names_loop_suffixed(col, i, names, new_names) ==
    IF i > Len(col) THEN new_names
    ELSE LET name == col[i] IN
        IF is_empty(name)
        THEN unique_names_loop_suffixed(col, i + 1, names, Append(new_names, name))
        ELSE LET normalized_name == normalize_name(name)
                 counter == IF normalized_name \in DOMAIN names
                            THEN names[normalized_name] + 1 ELSE 0
             IN unique_names_loop_suffixed(col, i + 1,
                    (normalized_name :> counter) @@ names,
                    Append(new_names,
                           Str(normalized_name \o <<"_">> \o IntToStr(counter))))

\* The loop without names[normalized_name] = counter
RECURSIVE unique_names_loop_forgetful(_, _, _, _)
unique_names_loop_forgetful(col, i, names, new_names) ==
    IF i > Len(col) THEN new_names
    ELSE LET name == col[i] IN
        IF is_empty(name)
        THEN unique_names_loop_forgetful(col, i + 1, names, Append(new_names, name))
        ELSE LET normalized_name == normalize_name(name) IN
            IF normalized_name \in DOMAIN names
            THEN LET counter == names[normalized_name] + 1 IN
                unique_names_loop_forgetful(col, i + 1, names,
                    Append(new_names,
                           Str(normalized_name \o <<"_">> \o IntToStr(counter))))
            ELSE unique_names_loop_forgetful(col, i + 1,
                    (normalized_name :> 0) @@ names,
                    Append(new_names, Str(normalized_name)))

RECURSIVE unique_names_loop(_, _, _, _)
unique_names_loop(col, i, names, new_names) ==
    IF i > Len(col) THEN new_names
    ELSE LET name == col[i] IN
        IF is_empty(name)
        THEN unique_names_loop(col, i + 1, names, Append(new_names, name))
        ELSE LET normalized_name == normalize_name(name) IN
            IF normalized_name \in DOMAIN names
            THEN LET counter == names[normalized_name] + 1 IN
                unique_names_loop(col, i + 1,
                    [names EXCEPT ![normalized_name] = counter],
                    Append(new_names,
                           Str(normalized_name \o <<"_">> \o IntToStr(counter))))
            ELSE unique_names_loop(col, i + 1,
                    (normalized_name :> 0) @@ names,
                    Append(new_names, Str(normalized_name)))

ensure_unique_names(df) ==
    IF "name" \notin Cols(df) THEN Raised(df)      \* df['name'] : KeyError
    ELSE LET new_names == unique_names_loop(Column(df, "name"), 1,
                                            [n \in {} |-> 0], <<>>)
             out == SetColumn(df, "name", new_names)
         IN Returned(out, out, TRUE)

-----------------------------------------------------------------------------
(* Text helpers: str.strip(), str.startswith(), the `in` substring test *)

RECURSIVE lstrip(_)
lstrip(s) == IF s # <<>> /\ Head(s) = " " THEN lstrip(Tail(s)) ELSE s

RECURSIVE rstrip(_)
rstrip(s) ==
    IF s # <<>> /\ s[Len(s)] = " " THEN rstrip(SubSeq(s, 1, Len(s) - 1)) ELSE s

strip(s) == rstrip(lstrip(s))

startswith(s, prefix) ==
    Len(s) >= Len(prefix) /\ SubSeq(s, 1, Len(prefix)) = prefix

contains(s, pattern) ==
    \E i \in 1..(Len(s) - Len(pattern) + 1) :
        SubSeq(s, i, i + Len(pattern) - 1) = pattern

-----------------------------------------------------------------------------
(* fix_field_types *)

unsupported_types ==
    {<<"deviceid">>, <<"username">>, <<"subscriberid">>, <<"simserial">>,
     <<"phonenumber">>, <<"caseid">>, <<"text", " ", "audit">>,
     <<"comments">>, <<"audit">>}

standard_types ==
    {<<"text">>, <<"integer">>, <<"decimal">>, <<"select_one">>,
     <<"select_multiple">>, <<"note">>, <<"geopoint">>, <<"geotrace">>,
     <<"geoshape">>, <<"date">>, <<"time">>, <<"dateTime">>, <<"image">>,
     <<"audio">>, <<"video">>, <<"file">>, <<"barcode">>, <<"calculate">>,
     <<"acknowledge">>, <<"hidden">>, <<"xml-external">>,
     <<"begin", " ", "group">>, <<"end", " ", "group">>,
     <<"begin", " ", "repeat">>, <<"end", " ", "repeat">>}

is_standard_type(type_val) ==
    IF is_empty(type_val) THEN FALSE
    ELSE LET type_str == strip(type_val.v) IN
        \/ type_str \in standard_types
        \/ startswith(type_str, <<"select_one", " ">>)
        \/ startswith(type_str, <<"select_multiple", " ">>)

\* The loop body with the three substrings tested in the opposite order
fixed_type_subdistrict_first(cell) ==
    IF is_empty(cell) THEN cell
    ELSE LET type_val == strip(cell.v) IN
        IF type_val \in unsupported_types THEN Str(<<"text">>)
        ELSE IF startswith(type_val, <<"select_one", " ">>)
        THEN IF contains(type_val, <<"sSubdistrict">>)
             THEN Str(<<"select_one", " ", "subdistrict">>)
             ELSE IF contains(type_val, <<"sDistrict">>)
             THEN Str(<<"select_one", " ", "district">>)
             ELSE IF contains(type_val, <<"sGovernorate">>)
             THEN Str(<<"select_one", " ", "governorate">>)
             ELSE cell
        ELSE IF ~is_standard_type(Str(type_val)) THEN Str(<<"text">>)
        ELSE cell

\* The body of the loop for one row: the cell df.at[idx, 'type'] ends with
fixed_type(cell) ==
    IF is_empty(cell) THEN cell
    ELSE LET type_val == strip(cell.v) IN
        IF type_val \in unsupported_types THEN Str(<<"text">>)
        ELSE IF startswith(type_val, <<"select_one", " ">>)
        THEN IF contains(type_val, <<"sGovernorate">>)
             THEN Str(<<"select_one", " ", "governorate">>)
             ELSE IF contains(type_val, <<"sDistrict">>)
             THEN Str(<<"select_one", " ", "district">>)
             ELSE IF contains(type_val, <<"sSubdistrict">>)
             THEN Str(<<"select_one", " ", "subdistrict">>)
             ELSE cell
        ELSE IF ~is_standard_type(Str(type_val)) THEN Str(<<"text">>)
        ELSE cell

RECURSIVE fix_field_types_loop(_, _)
fix_field_types_loop(df, i) ==
    IF i > NRows(df) THEN df
    ELSE fix_field_types_loop(
            IF "type" \in Cols(df)
            THEN SetAt(df, i, "type", fixed_type(df.rows[i]["type"]))
            ELSE df,
            i + 1)

fix_field_types(df) ==
    LET out == fix_field_types_loop(df, 1) IN Returned(out, out, TRUE)

-----------------------------------------------------------------------------
(* validate_group_repeat_logic *)

\* First pass: the two stacks of index labels of the opens not yet closed
\* The scan without the pop at an 'end repeat'
RECURSIVE group_repeat_scan_keep(_, _, _, _)
group_repeat_scan_keep(df, i, missing_end_groups, missing_end_repeats) ==
    IF i > NRows(df)
    THEN [groups |-> missing_end_groups, repeats |-> missing_end_repeats]
    ELSE LET type_val == df.rows[i]["type"]
             idx == df.index[i]
             type_str == strip(type_val.v)
             pop(stack) == IF stack # <<>>
                           THEN SubSeq(stack, 1, Len(stack) - 1) ELSE stack
         IN IF is_empty(type_val)
            THEN group_repeat_scan_keep(df, i + 1, missing_end_groups, missing_end_repeats)
            ELSE IF type_str = <<"begin", " ", "group">>
            THEN group_repeat_scan_keep(df, i + 1,
                    Append(missing_end_groups, idx), missing_end_repeats)
            ELSE IF type_str = <<"end", " ", "group">>
            THEN group_repeat_scan_keep(df, i + 1,
                    pop(missing_end_groups), missing_end_repeats)
            ELSE IF type_str = <<"begin", " ", "repeat">>
            THEN group_repeat_scan_keep(df, i + 1,
                    missing_end_groups, Append(missing_end_repeats, idx))
            ELSE group_repeat_scan_keep(df, i + 1, missing_end_groups, missing_end_repeats)

RECURSIVE group_repeat_scan(_, _, _, _)
group_repeat_scan(df, i, missing_end_groups, missing_end_repeats) ==
    IF i > NRows(df)
    THEN [groups |-> missing_end_groups, repeats |-> missing_end_repeats]
    ELSE LET type_val == df.rows[i]["type"]
             idx == df.index[i]
             type_str == strip(type_val.v)
             pop(stack) == IF stack # <<>>
                           THEN SubSeq(stack, 1, Len(stack) - 1) ELSE stack
         IN IF is_empty(type_val)
            THEN group_repeat_scan(df, i + 1, missing_end_groups, missing_end_repeats)
            ELSE IF type_str = <<"begin", " ", "group">>
            THEN group_repeat_scan(df, i + 1,
                    Append(missing_end_groups, idx), missing_end_repeats)
            ELSE IF type_str = <<"end", " ", "group">>
            THEN group_repeat_scan(df, i + 1,
                    pop(missing_end_groups), missing_end_repeats)
            ELSE IF type_str = <<"begin", " ", "repeat">>
            THEN group_repeat_scan(df, i + 1,
                    missing_end_groups, Append(missing_end_repeats, idx))
            ELSE IF type_str = <<"end", " ", "repeat">>
            THEN group_repeat_scan(df, i + 1,
                    missing_end_groups, pop(missing_end_repeats))
            ELSE group_repeat_scan(df, i + 1, missing_end_groups, missing_end_repeats)

\* closing_row without the assignment new_row['type'] = marker
closing_row_blank(df, marker) == [c \in Cols(df) |-> Empty]

\* {col: '' for col in df.columns} with new_row['type'] = marker
closing_row(df, marker) ==
    [c \in Cols(df) |-> IF c = "type" THEN Str(marker) ELSE Empty]

\* df.loc[idx] = new_row : a known label is overwritten, a new one appended
SetLoc(df, idx, new_row) ==
    IF idx \in Range(df.index)
    THEN [df EXCEPT !.rows = [i \in DOMAIN @ |->
                                IF df.index[i] = idx THEN new_row ELSE @[i]]]
    ELSE [df EXCEPT !.index = Append(@, idx), !.rows = Append(@, new_row)]

RECURSIVE add_rows(_, _)
add_rows(df, new_rows) ==
    IF new_rows = <<>> THEN df
    ELSE add_rows(SetLoc(df, Head(new_rows)[1], Head(new_rows)[2]), Tail(new_rows))

\* df.sort_index() : a stable sort of the rows by index label
RECURSIVE sort_index_perm(_, _)
sort_index_perm(index, done) ==
    IF Len(done) = Len(index) THEN done
    ELSE LET left == DOMAIN index \ Range(done)
             next == CHOOSE i \in left :
                        \A j \in left : index[i] < index[j]
                                        \/ (index[i] = index[j] /\ i <= j)
         IN sort_index_perm(index, Append(done, next))

sort_index(df) ==
    LET perm == sort_index_perm(df.index, <<>>) IN
    [df EXCEPT !.index = [i \in DOMAIN perm |-> df.index[perm[i]]],
               !.rows = [i \in DOMAIN perm |-> df.rows[perm[i]]]]

\* df.reset_index(drop = True)
reset_index(df) == [df EXCEPT !.index = [i \in DOMAIN @ |-> i - 1]]

\* validate_group_repeat_logic closing the groups before the repeats
validate_group_repeat_logic_groups_first(df) ==
    IF "type" \notin Cols(df) THEN Returned(df, df, TRUE)
    ELSE LET missing == group_repeat_scan(df, 1, <<>>, <<>>)
             nr == Len(missing.repeats)
             ng == Len(missing.groups)
             last == df.index[Len(df.index)]
             new_rows == [k \in 1..(nr + ng) |->
                            <<last + 1 + (k - 1),
                              closing_row(df, IF k <= ng
                                              THEN <<"end", " ", "group">>
                                              ELSE <<"end", " ", "repeat">>)>>]
             grown == add_rows(df, new_rows)
         IN Returned(grown, reset_index(sort_index(grown)), FALSE)

validate_group_repeat_logic(df) ==
    IF "type" \notin Cols(df) THEN Returned(df, df, TRUE)
    ELSE LET missing == group_repeat_scan(df, 1, <<>>, <<>>)
             nr == Len(missing.repeats)
             ng == Len(missing.groups)
             \* evaluated only when a row is synthesized, so never on no rows
             last == df.index[Len(df.index)]
             new_rows == [k \in 1..(nr + ng) |->
                            <<last + 1 + (k - 1),
                              closing_row(df, IF k <= nr
                                              THEN <<"end", " ", "repeat">>
                                              ELSE <<"end", " ", "group">>)>>]
             grown == add_rows(df, new_rows)
         IN Returned(grown, reset_index(sort_index(grown)), FALSE)

-----------------------------------------------------------------------------
(* normalize_language_columns *)
(* The Arabic word of the column names 'label:...' and 'hint:...' is      *)
(* written al-arabiya here: the module is ASCII.                           *)

label_english_patterns ==
    {"label", "label:English", "label::English (en)", "label::English"}

label_arabic_patterns ==
    {"label:al-arabiya", "label::Arabic (ar)", "label::al-arabiya", "label::Arabic"}

hint_english_patterns ==
    {"hint", "hint:English", "hint::English (en)", "hint::English"}

hint_arabic_patterns ==
    {"hint:al-arabiya", "hint::Arabic (ar)", "hint::al-arabiya", "hint::Arabic"}

canonical_columns == <<"label::English", "label::Arabic", "hint::English", "hint::Arabic">>

\* The spelling of a column name, for the startswith tests on it
ColumnText(col) ==
    CASE col = "label:English" -> <<"label", ":", "English">>
      [] col = "label::English (en)" -> <<"label", ":", ":", "English", " ", "(en)">>
      [] col = "label::English" -> <<"label", ":", ":", "English">>
      [] col = "label:al-arabiya" -> <<"label", ":", "al-arabiya">>
      [] col = "label::Arabic (ar)" -> <<"label", ":", ":", "Arabic", " ", "(ar)">>
      [] col = "label::al-arabiya" -> <<"label", ":", ":", "al-arabiya">>
      [] col = "label::Arabic" -> <<"label", ":", ":", "Arabic">>
      [] col = "label::French" -> <<"label", ":", ":", "French">>
      [] col = "hint:English" -> <<"hint", ":", "English">>
      [] col = "hint::English (en)" -> <<"hint", ":", ":", "English", " ", "(en)">>
      [] col = "hint::English" -> <<"hint", ":", ":", "English">>
      [] col = "hint:al-arabiya" -> <<"hint", ":", "al-arabiya">>
      [] col = "hint::Arabic (ar)" -> <<"hint", ":", ":", "Arabic", " ", "(ar)">>
      [] col = "hint::al-arabiya" -> <<"hint", ":", ":", "al-arabiya">>
      [] col = "hint::Arabic" -> <<"hint", ":", ":", "Arabic">>
      [] col = "hint::French" -> <<"hint", ":", ":", "French">>
      [] OTHER -> <<col>>

\* if c not in df.columns: df[c] = ''   for the four canonical columns
RECURSIVE create_canonical(_, _)
create_canonical(df, k) ==
    IF k > Len(canonical_columns) THEN df
    ELSE create_canonical(
            IF canonical_columns[k] \notin Cols(df)
            THEN SetColumn(df, canonical_columns[k], [i \in 1..NRows(df) |-> Empty])
            ELSE df,
            k + 1)

\* The canonical column an alias is merged into ("" when col is no alias)
merge_target(col) ==
    IF col \in label_english_patterns /\ col # "label::English" THEN "label::English"
    ELSE IF col \in label_arabic_patterns /\ col # "label::Arabic" THEN "label::Arabic"
    ELSE IF col \in hint_english_patterns /\ col # "hint::English" THEN "hint::English"
    ELSE IF col \in hint_arabic_patterns /\ col # "hint::Arabic" THEN "hint::Arabic"
    ELSE ""

\* The merge in which a non-blank alias cell replaces a filled canonical cell
merge_alias_overwrite(df, col, t) ==
    SetColumn(df, t,
        [i \in 1..NRows(df) |->
            LET row == df.rows[i] IN
            IF ~is_empty(row[col]) THEN row[col] ELSE row[t]])

\* The merge with '' for the rows it does not fill from the alias
merge_alias_or_blank(df, col, t) ==
    SetColumn(df, t,
        [i \in 1..NRows(df) |->
            LET row == df.rows[i] IN
            IF is_empty(row[t]) /\ ~is_empty(row[col]) THEN row[col] ELSE Empty])

\* df[t] = df.apply(lambda row: row[col] if is_empty(row[t]) and not
\*                  is_empty(row[col]) else row[t], axis=1)
merge_alias(df, col, t) ==
    SetColumn(df, t,
        [i \in 1..NRows(df) |->
            LET row == df.rows[i] IN
            IF is_empty(row[t]) /\ ~is_empty(row[col]) THEN row[col] ELSE row[t]])

RECURSIVE merge_loop(_, _, _)
merge_loop(df, columns, k) ==
    IF k > Len(columns) THEN df
    ELSE merge_loop(
            IF merge_target(columns[k]) # ""
            THEN merge_alias(df, columns[k], merge_target(columns[k]))
            ELSE df,
            columns, k + 1)

columns_to_drop(columns) ==
    {col \in Range(columns) :
        \/ /\ startswith(ColumnText(col), <<"label", ":">>)
              \/ startswith(ColumnText(col), <<"label", ":", ":">>)
           /\ col \notin {"label::English", "label::Arabic"}
        \/ /\ startswith(ColumnText(col), <<"hint", ":">>)
              \/ startswith(ColumnText(col), <<"hint", ":", ":">>)
           /\ col \notin {"hint::English", "hint::Arabic"}}

normalize_language_columns(df) ==
    LET columns == df.columns
        merged == merge_loop(create_canonical(df, 1), columns, 1)
    IN Returned(merged, DropColumns(merged, columns_to_drop(columns)), FALSE)

-----------------------------------------------------------------------------
(* apply_fallbacks *)
(* The two Arabic templates are written "ar:Input for " and "ar:Hint for ". *)

fallback_template ==
    [c \in Range(canonical_columns) |->
        CASE c = "label::English" -> "Input for "
          [] c = "label::Arabic" -> "ar:Input for "
          [] c = "hint::English" -> "Hint for "
          [] c = "hint::Arabic" -> "ar:Hint for "]

\* fallback_row with the two hint columns forgotten
RECURSIVE fallback_row_labels(_, _, _)
fallback_row_labels(df, i, k) ==
    IF k > Len(canonical_columns) THEN df
    ELSE LET c == canonical_columns[k]
             name == df.rows[i]["name"]
         IN fallback_row_labels(
                IF /\ c \in {"label::English", "label::Arabic"}
                   /\ c \in Cols(df) /\ is_empty(df.rows[i][c])
                THEN SetAt(df, i, c, Str(<<fallback_template[c]>> \o name.v))
                ELSE df,
                i, k + 1)

RECURSIVE fallback_row(_, _, _)
fallback_row(df, i, k) ==
    IF k > Len(canonical_columns) THEN df
    ELSE LET c == canonical_columns[k]
             name == df.rows[i]["name"]
         IN fallback_row(
                IF c \in Cols(df) /\ is_empty(df.rows[i][c])
                THEN SetAt(df, i, c, Str(<<fallback_template[c]>> \o name.v))
                ELSE df,
                i, k + 1)

RECURSIVE apply_fallbacks_loop(_, _)
apply_fallbacks_loop(df, i) ==
    IF i > NRows(df) THEN df
    ELSE apply_fallbacks_loop(
            IF is_empty(df.rows[i]["name"]) THEN df ELSE fallback_row(df, i, 1),
            i + 1)

apply_fallbacks(df) ==
    IF "name" \notin Cols(df) THEN Returned(df, df, TRUE)
    ELSE LET out == apply_fallbacks_loop(df, 1) IN Returned(out, out, TRUE)

-----------------------------------------------------------------------------
(* clean_calculation_fields, clean_default_values *)

invalid_patterns ==
    <<<<"pulldata(">>, <<"duration(">>, <<"if(<">>, <<"if(=">>, <<"if(,)">>,
      <<"selected(,)">>, <<"(+())">>, <<"(*1)">>, <<"(*2)">>, <<"${">>>>

has_invalid_expression(value) ==
    IF is_empty(value) THEN FALSE
    ELSE \E k \in DOMAIN invalid_patterns : contains(value.v, invalid_patterns[k])

check_cols == <<"calculation", "required", "relevant", "constraint", "choice_filter">>

should_convert(df, i) ==
    \E k \in DOMAIN check_cols :
        /\ check_cols[k] \in Cols(df)
        /\ ~is_empty(df.rows[i][check_cols[k]])
        /\ has_invalid_expression(df.rows[i][check_cols[k]])

\* The loop clearing, with the calculation, every checked cell of the row
RECURSIVE clean_calculation_loop_clear_all(_, _)
clean_calculation_loop_clear_all(df, i) ==
    IF i > NRows(df) THEN df
    ELSE clean_calculation_loop_clear_all(
            IF should_convert(df, i) /\ "type" \in Cols(df)
            THEN LET typed == SetAt(df, i, "type", Str(<<"text">>)) IN
                 [typed EXCEPT !.rows[i] =
                    [c \in Cols(df) |->
                        IF c \in Range(check_cols) THEN Empty ELSE typed.rows[i][c]]]
            ELSE df,
            i + 1)

RECURSIVE clean_calculation_loop(_, _)
clean_calculation_loop(df, i) ==
    IF i > NRows(df) THEN df
    ELSE clean_calculation_loop(
            IF should_convert(df, i) /\ "type" \in Cols(df)
            THEN LET typed == SetAt(df, i, "type", Str(<<"text">>)) IN
                 IF "calculation" \in Cols(df)
                 THEN SetAt(typed, i, "calculation", Empty)
                 ELSE typed
            ELSE df,
            i + 1)

clean_calculation_fields(df) ==
    LET out == clean_calculation_loop(df, 1) IN Returned(out, out, TRUE)

RECURSIVE clean_default_loop(_, _)
clean_default_loop(df, i) ==
    IF i > NRows(df) THEN df
    ELSE LET default_val == df.rows[i]["default"] IN
         clean_default_loop(
            IF /\ ~is_empty(default_val)
               /\ \/ contains(default_val.v, <<"pulldata(">>)
                  \/ contains(default_val.v, <<"${">>)
            THEN SetAt(df, i, "default", Empty)
            ELSE df,
            i + 1)

clean_default_values(df) ==
    IF "default" \notin Cols(df) THEN Returned(df, df, TRUE)
    ELSE LET out == clean_default_loop(df, 1) IN Returned(out, out, TRUE)

-----------------------------------------------------------------------------
(* create_standard_location_choices, fix_cascading_selects *)
(* Arabic labels are written with an "ar:" prefix.                         *)

NoneDf == [none |-> TRUE]

\* pd.DataFrame(list of dicts): the columns in order of first appearance,
\* NaN where a dict has no such key
location_columns ==
    <<"list_name", "name", "label::English", "label::Arabic", "governorate", "district">>

location_row(list_name, name, en, ar, parent_col, parent) ==
    [c \in Range(location_columns) |->
        CASE c = "list_name" -> Str(<<list_name>>)
          [] c = "name" -> Str(<<name>>)
          [] c = "label::English" -> Str(<<en>>)
          [] c = "label::Arabic" -> Str(<<ar>>)
          [] OTHER -> IF c = parent_col THEN Str(<<parent>>) ELSE NaN]

create_standard_location_choices ==
    DataFrame(location_columns,
      <<location_row("governorate", "baghdad", "Baghdad", "ar:Baghdad", "", ""),
        location_row("governorate", "basra", "Basra", "ar:Basra", "", ""),
        location_row("governorate", "erbil", "Erbil", "ar:Erbil", "", ""),
        location_row("district", "district1", "District 1", "ar:District 1", "governorate", "baghdad"),
        location_row("district", "district2", "District 2", "ar:District 2", "governorate", "baghdad"),
        location_row("district", "district3", "District 3", "ar:District 3", "governorate", "basra"),
        location_row("subdistrict", "subdistrict1", "Subdistrict 1", "ar:Subdistrict 1", "district", "district1"),
        location_row("subdistrict", "subdistrict2", "Subdistrict 2", "ar:Subdistrict 2", "district", "district1"),
        location_row("subdistrict", "subdistrict3", "Subdistrict 3", "ar:Subdistrict 3", "district", "district2")>>)

reserved_lists == {Str(<<"governorate">>), Str(<<"district">>), Str(<<"subdistrict">>)}

\* df[mask] : the rows kept, with their index labels
FilterRows(df, mask) ==
    LET kept == SelectSeq([i \in 1..NRows(df) |-> i], LAMBDA i : mask[i]) IN
    [df EXCEPT !.index = [j \in DOMAIN kept |-> df.index[kept[j]]],
               !.rows = [j \in DOMAIN kept |-> df.rows[kept[j]]]]

\* pd.concat([a, b], ignore_index = True)
concat(a, b) ==
    LET columns == a.columns \o SelectSeq(b.columns, LAMBDA c : c \notin Cols(a))
        widen(df) == [i \in 1..NRows(df) |->
                        [c \in Range(columns) |->
                            IF c \in Cols(df) THEN df.rows[i][c] ELSE NaN]]
    IN DataFrame(columns, widen(a) \o widen(b))

\* fix_cascading_selects without the removal of the existing location rows
fix_cascading_selects_keep(choices_df) ==
    IF choices_df = NoneDf THEN Returned(choices_df, create_standard_location_choices, FALSE)
    ELSE IF NRows(choices_df) = 0
    THEN Returned(choices_df, create_standard_location_choices, FALSE)
    ELSE IF "list_name" \notin Cols(choices_df)
    THEN Raised(choices_df)
    ELSE Returned(choices_df,
            concat(choices_df, create_standard_location_choices), FALSE)

\* fix_cascading_selects returning the seed alone only when there is no
\* table: a table without rows goes through the filter and the concat
fix_cascading_selects_none_only(choices_df) ==
    IF choices_df = NoneDf THEN Returned(choices_df, create_standard_location_choices, FALSE)
    ELSE IF "list_name" \notin Cols(choices_df)
    THEN Raised(choices_df)
    ELSE Returned(choices_df,
            concat(FilterRows(choices_df,
                        [i \in 1..NRows(choices_df) |->
                            choices_df.rows[i]["list_name"] \notin reserved_lists]),
                   create_standard_location_choices),
            FALSE)

fix_cascading_selects(choices_df) ==
    IF choices_df = NoneDf THEN Returned(choices_df, create_standard_location_choices, FALSE)
    ELSE IF NRows(choices_df) = 0
    THEN Returned(choices_df, create_standard_location_choices, FALSE)
    ELSE IF "list_name" \notin Cols(choices_df)
    THEN Raised(choices_df)                  \* choices_df['list_name'] : KeyError
    ELSE Returned(choices_df,
            concat(FilterRows(choices_df,
                        [i \in 1..NRows(choices_df) |->
                            choices_df.rows[i]["list_name"] \notin reserved_lists]),
                   create_standard_location_choices),
            FALSE)

-----------------------------------------------------------------------------
(* fix_settings_sheet *)

\* df[c] = v : the scalar v in every row
SetColumnScalar(df, c, v) == SetColumn(df, c, [i \in 1..NRows(df) |-> v])

\* fix_settings_sheet with the default language as a fallback: an existing
\* value is kept
fix_settings_sheet_fallback(settings_df, form_name) ==
    IF settings_df = NoneDf \/ NRows(settings_df) = 0
    THEN Returned(settings_df,
            DataFrame(<<"form_title", "form_id", "default_language">>,
                <<[c \in {"form_title", "form_id", "default_language"} |->
                    CASE c = "form_title" -> Str(form_name)
                      [] c = "form_id" -> Str(normalize_name(Str(form_name)))
                      [] c = "default_language" -> Str(<<"English">>)]>>),
            FALSE)
    ELSE LET titled ==
                IF "form_title" \notin Cols(settings_df)
                   \/ is_empty(settings_df.rows[1]["form_title"])
                THEN SetColumnScalar(settings_df, "form_title", Str(form_name))
                ELSE settings_df
             identified ==
                IF "form_id" \notin Cols(titled) \/ is_empty(titled.rows[1]["form_id"])
                THEN SetColumnScalar(titled, "form_id", Str(normalize_name(Str(form_name))))
                ELSE titled
             out ==
                IF "default_language" \notin Cols(identified)
                   \/ is_empty(identified.rows[1]["default_language"])
                THEN SetColumnScalar(identified, "default_language", Str(<<"English">>))
                ELSE identified
         IN Returned(out, out, TRUE)

\* fix_settings_sheet deriving the title and the identifier together, as
\* soon as one of them is missing
fix_settings_sheet_together(settings_df, form_name) ==
    IF settings_df = NoneDf \/ NRows(settings_df) = 0
    THEN Returned(settings_df,
            DataFrame(<<"form_title", "form_id", "default_language">>,
                <<[c \in {"form_title", "form_id", "default_language"} |->
                    CASE c = "form_title" -> Str(form_name)
                      [] c = "form_id" -> Str(normalize_name(Str(form_name)))
                      [] c = "default_language" -> Str(<<"English">>)]>>),
            FALSE)
    ELSE LET missing ==
                \/ "form_title" \notin Cols(settings_df)
                \/ is_empty(settings_df.rows[1]["form_title"])
                \/ "form_id" \notin Cols(settings_df)
                \/ is_empty(settings_df.rows[1]["form_id"])
             derived ==
                IF missing
                THEN SetColumnScalar(
                        SetColumnScalar(settings_df, "form_title", Str(form_name)),
                        "form_id", Str(normalize_name(Str(form_name))))
                ELSE settings_df
             out == SetColumnScalar(derived, "default_language", Str(<<"English">>))
         IN Returned(out, out, TRUE)

fix_settings_sheet(settings_df, form_name) ==
    IF settings_df = NoneDf \/ NRows(settings_df) = 0
    THEN Returned(settings_df,
            DataFrame(<<"form_title", "form_id", "default_language">>,
                <<[c \in {"form_title", "form_id", "default_language"} |->
                    CASE c = "form_title" -> Str(form_name)
                      [] c = "form_id" -> Str(normalize_name(Str(form_name)))
                      [] c = "default_language" -> Str(<<"English">>)]>>),
            FALSE)
    ELSE LET titled ==
                IF "form_title" \notin Cols(settings_df)
                   \/ is_empty(settings_df.rows[1]["form_title"])
                THEN SetColumnScalar(settings_df, "form_title", Str(form_name))
                ELSE settings_df
             identified ==
                IF "form_id" \notin Cols(titled) \/ is_empty(titled.rows[1]["form_id"])
                THEN SetColumnScalar(titled, "form_id", Str(normalize_name(Str(form_name))))
                ELSE titled
             out == SetColumnScalar(identified, "default_language", Str(<<"English">>))
         IN Returned(out, out, TRUE)

-----------------------------------------------------------------------------
(* remove_redundant_columns *)

isna(value) == value.k = "nan" \/ value.k = "none"

\* A dropna that stops at the first column without a value
dropna_columns_first(df) ==
    LET blank == SelectSeq(df.columns,
                    LAMBDA c : \A i \in 1..NRows(df) : isna(df.rows[i][c]))
    IN DropColumns(df, IF blank = <<>> THEN {} ELSE {Head(blank)})

\* df.dropna(axis = 1, how = 'all')
dropna_columns(df) ==
    DropColumns(df, {c \in Cols(df) : \A i \in 1..NRows(df) : isna(df.rows[i][c])})

unused_columns == {"style", "readonly", "publishable", "autoplay"}

\* remove_redundant_columns dropping with inplace = True
remove_redundant_columns_inplace(df) ==
    LET kept == dropna_columns(df)
        out == DropColumns(kept, unused_columns \cap Cols(kept))
    IN Returned(out, out, TRUE)

remove_redundant_columns(df) ==
    LET kept == dropna_columns(df) IN
    Returned(df, DropColumns(kept, unused_columns \cap Cols(kept)), FALSE)

-----------------------------------------------------------------------------
(* Calls of one stage function on one table *)

\* The rows over `columns` whose cell in column c is drawn from cellsOf[c]
RECURSIVE RowsOver(_, _)
RowsOver(columns, cellsOf) ==
    IF columns = <<>> THEN {[c \in {} |-> NaN]}
    ELSE {(Head(columns) :> v) @@ r :
            v \in cellsOf[Head(columns)], r \in RowsOver(Tail(columns), cellsOf)}

Tables(columns, cellsOf, n) ==
    UNION {{DataFrame(columns, rows) : rows \in [1..k -> RowsOver(columns, cellsOf)]}
           : k \in 0..n}

\* The index dropna(how = 'all') leaves when blank sheet rows were dropped
Gapped(df) == [df EXCEPT !.index = [i \in DOMAIN @ |-> 2 * i]]

\* The defaults the top of the script gives a session that lacks them
FreshSession ==
    [key \in {"current_step", "survey_df", "choices_df", "settings_df",
              "form_name", "uploaded_file", "edited_dfs"} |->
        CASE key = "current_step" -> 0
          [] key = "form_name" -> <<>>
          [] key = "edited_dfs" -> [k \in {} |-> NoneDf]
          [] OTHER -> NoneDf]

InitCall(fn, inputs, names) ==
    /\ stage = fn
    /\ arg0 \in inputs
    /\ arg = arg0
    /\ ret = NoTable
    /\ same = FALSE
    /\ pc = "call"
    /\ name_arg \in names
    /\ session_state = FreshSession
    /\ uploads = 0
    /\ uploader = NoneDf

Call(fn, outcome) ==
    /\ pc = "call"
    /\ stage = fn
    /\ arg' = outcome.df
    /\ ret' = outcome.ret
    /\ same' = outcome.same
    /\ pc' = IF outcome.raised THEN "raised" ELSE "returned"
    /\ UNCHANGED <<stage, arg0, name_arg, session_state, uploads, uploader>>

\* The stage called once more, on the table its first call returned
Recall(fn, outcome) ==
    /\ pc = "returned"
    /\ stage = fn
    /\ arg0' = ret
    /\ arg' = outcome.df
    /\ ret' = outcome.ret
    /\ same' = outcome.same
    /\ pc' = IF outcome.raised THEN "raised again" ELSE "returned again"
    /\ UNCHANGED <<stage, name_arg, session_state, uploads, uploader>>

NoName == {<<>>}

Q == Str(<<"q">>)

(* ensure_unique_names *)

NameCells ==
    {NaN, Empty, Str(<<"a">>), Str(<<"A">>), Str(<<"a", "!">>),
     Str(<<"a", "_", "1">>), Str(<<"a", " ", "1">>), Str(<<"b">>), Str(<<"!">>)}

NameTables ==
    Tables(<<"type", "name">>, ("type" :> {Str(<<"text">>)}) @@ ("name" :> NameCells), MaxRows)
    \cup Tables(<<"type">>, ("type" :> {Str(<<"text">>)}), 1)

InitNames == InitCall("ensure_unique_names", NameTables, NoName)

CallNames == Call("ensure_unique_names", ensure_unique_names(arg))

SpecNames == InitNames /\ [][CallNames]_vars

RecallNames == Recall("ensure_unique_names", ensure_unique_names(ret))

SpecNamesTwice == InitNames /\ [][CallNames \/ RecallNames]_vars

(* fix_field_types *)

TypeCells ==
    {NaN, Empty, Str(<<" ">>), Str(<<"text">>), Str(<<"text", " ">>),
     Str(<<"deviceid">>), Str(<<"text", " ", "audit">>), Str(<<"foo">>),
     Str(<<"select_one">>), Str(<<"select_one", " ", "yesno">>),
     Str(<<" ", "select_one", " ", "yesno">>),
     Str(<<"select_one", " ", "sGovernorate", "List">>),
     Str(<<"select_one", " ", "sSubdistrict", "_", "sDistrict">>),
     Str(<<"select_multiple", " ", "yesno">>),
     Str(<<"begin", " ", "group">>)}

TypeTables ==
    Tables(<<"type", "name">>, ("type" :> TypeCells) @@ ("name" :> {Q}), MaxWideRows)
    \cup Tables(<<"name">>, ("name" :> {Q}), 1)

InitTypes == InitCall("fix_field_types", TypeTables, NoName)

CallTypes == Call("fix_field_types", fix_field_types(arg))

SpecTypes == InitTypes /\ [][CallTypes]_vars

(* validate_group_repeat_logic *)

MarkerCells ==
    {Str(<<"begin", " ", "group">>), Str(<<"end", " ", "group">>),
     Str(<<"begin", " ", "repeat">>), Str(<<"end", " ", "repeat">>),
     Str(<<"text">>)}

OddMarkerCells ==
    {NaN, Empty, Str(<<"begin", " ", "group", " ">>), Str(<<" ", "end", " ", "group">>),
     Str(<<"begin", " ", "group">>), Str(<<"end", " ", "repeat">>)}

MarkerTables ==
    LET plain == Tables(<<"type", "name">>,
                        ("type" :> MarkerCells) @@ ("name" :> {Q}), MaxMarkerRows)
        odd == Tables(<<"name", "type">>,
                      ("type" :> OddMarkerCells) @@ ("name" :> {Q}), MaxWideRows)
    IN plain \cup odd \cup {Gapped(df) : df \in odd}
       \cup Tables(<<"name">>, ("name" :> {Q}), 1)

InitGroups == InitCall("validate_group_repeat_logic", MarkerTables, NoName)

CallGroups == Call("validate_group_repeat_logic", validate_group_repeat_logic(arg))

SpecGroups == InitGroups /\ [][CallGroups]_vars

RecallGroups == Recall("validate_group_repeat_logic", validate_group_repeat_logic(ret))

SpecGroupsTwice == InitGroups /\ [][CallGroups \/ RecallGroups]_vars

\* The tables with two 'begin repeat', one 'end repeat', one 'begin group'
\* and one 'end group', in every order, among rows that are no marker
TwoRepeatTables ==
    UNION {{DataFrame(<<"type", "name">>,
                [i \in 1..n |-> ("type" :> types[i]) @@ ("name" :> Q)]) :
            types \in {t \in [1..n -> MarkerCells] :
                /\ Cardinality({i \in 1..n : t[i] = Str(<<"begin", " ", "repeat">>)}) = 2
                /\ Cardinality({i \in 1..n : t[i] = Str(<<"end", " ", "repeat">>)}) = 1
                /\ Cardinality({i \in 1..n : t[i] = Str(<<"begin", " ", "group">>)}) = 1
                /\ Cardinality({i \in 1..n : t[i] = Str(<<"end", " ", "group">>)}) = 1}}
           : n \in 5..(5 + MaxOtherRows)}

InitTwoRepeats == InitCall("validate_group_repeat_logic", TwoRepeatTables, NoName)

SpecTwoRepeats == InitTwoRepeats /\ [][CallGroups]_vars

(* normalize_language_columns *)

LangColumnLists ==
    {<<"name", "label">>,
     <<"label", "label::English">>,
     <<"label::English", "label">>,
     <<"label:English", "label::English (en)">>,
     <<"label::English (en)", "label:English", "hint">>,
     <<"label::Arabic (ar)", "label:al-arabiya", "label::Arabic">>,
     <<"hint::al-arabiya", "hint:English", "hint::Arabic (ar)">>,
     <<"hint::French", "label::French", "name">>,
     <<"label::English", "label::Arabic", "hint::English", "hint::Arabic">>}

\* A cell is blank or carries the name of its column, so a merged value
\* tells where it came from
LangCells ==
    [c \in UNION {Range(l) : l \in LangColumnLists} |->
        IF c = "name" THEN {Q}
        ELSE IF c \in Range(canonical_columns) THEN {Empty, Str(<<c>>)}
        ELSE {NaN, Str(<<c>>)}]

LangTables == UNION {Tables(l, LangCells, MaxWideRows) : l \in LangColumnLists}

InitLang == InitCall("normalize_language_columns", LangTables, NoName)

CallLang == Call("normalize_language_columns", normalize_language_columns(arg))

SpecLang == InitLang /\ [][CallLang]_vars

RecallLang == Recall("normalize_language_columns", normalize_language_columns(ret))

SpecLangTwice == InitLang /\ [][CallLang \/ RecallLang]_vars

(* apply_fallbacks *)

FallbackColumnLists ==
    {<<"name", "label::English", "label::Arabic", "hint::English", "hint::Arabic">>,
     <<"name", "label::English", "hint::Arabic">>,
     <<"name", "type">>,
     <<"label::English", "type">>}

FallbackCells ==
    [c \in UNION {Range(l) : l \in FallbackColumnLists} |->
        IF c = "name" THEN {NaN, Str(<<"r", " ", "1">>)}
        ELSE IF c = "type" THEN {Str(<<"text">>)}
        ELSE IF c = "hint::English" THEN {Empty}
        ELSE IF c = "hint::Arabic" THEN {NaN, Str(<<c>>)}
        ELSE {Empty, Str(<<c>>)}]

FallbackTables == UNION {Tables(l, FallbackCells, MaxWideRows) : l \in FallbackColumnLists}

InitFallbacks == InitCall("apply_fallbacks", FallbackTables, NoName)

CallFallbacks == Call("apply_fallbacks", apply_fallbacks(arg))

SpecFallbacks == InitFallbacks /\ [][CallFallbacks]_vars

(* clean_calculation_fields *)

CalcColumnLists ==
    {<<"type", "calculation", "relevant">>,
     <<"type", "constraint", "choice_filter">>,
     <<"type", "required">>,
     <<"calculation", "relevant">>,
     <<"type", "name">>}

ExprCells ==
    {NaN, Empty, Str(<<"1", "+", "1">>), Str(<<"pulldata(", "x", ")">>),
     Str(<<"x", "=", "${", "a", "}">>), Str(<<"if(", "a", ")">>)}

CalcCells ==
    [c \in UNION {Range(l) : l \in CalcColumnLists} |->
        IF c = "name" THEN {Q, Str(<<"${">>)}
        ELSE IF c = "type" THEN {Str(<<"calculate">>)}
        ELSE IF c = "calculation"
        THEN {Empty, Str(<<"1", "+", "1">>), Str(<<"pulldata(", "x", ")">>)}
        ELSE {NaN, Str(<<"1", "+", "1">>), Str(<<"a", "(*1)">>)}]

CalcTables == UNION {Tables(l, CalcCells, MaxWideRows) : l \in CalcColumnLists}

InitCalc == InitCall("clean_calculation_fields", CalcTables, NoName)

CallCalc == Call("clean_calculation_fields", clean_calculation_fields(arg))

SpecCalc == InitCalc /\ [][CallCalc]_vars

(* clean_default_values *)

DefaultTables ==
    Tables(<<"name", "default">>, ("name" :> {Q}) @@ ("default" :> ExprCells), MaxRows)
    \cup Tables(<<"name">>, ("name" :> {Q}), 1)

InitDefaults == InitCall("clean_default_values", DefaultTables, NoName)

CallDefaults == Call("clean_default_values", clean_default_values(arg))

SpecDefaults == InitDefaults /\ [][CallDefaults]_vars

(* fix_cascading_selects *)

ListNameCells ==
    {NaN, Str(<<"governorate">>), Str(<<"district">>), Str(<<"subdistrict">>),
     Str(<<"yesno">>), Str(<<" ", "governorate">>)}

ChoiceColumnLists ==
    {<<"list_name", "name", "label">>,
     <<"name", "label::English", "list_name">>,
     <<"name", "label">>}

ChoiceCells ==
    [c \in UNION {Range(l) : l \in ChoiceColumnLists} |->
        IF c = "list_name" THEN ListNameCells
        ELSE IF c = "name" THEN {Str(<<"baghdad">>)}
        ELSE {Str(<<c>>)}]

ChoiceTables ==
    UNION {Tables(l, ChoiceCells, MaxRows) : l \in ChoiceColumnLists} \cup {NoneDf}

InitCascade == InitCall("fix_cascading_selects", ChoiceTables, NoName)

CallCascade == Call("fix_cascading_selects", fix_cascading_selects(arg))

SpecCascade == InitCascade /\ [][CallCascade]_vars

(* fix_settings_sheet *)

SettingsColumnLists ==
    {<<"form_title", "form_id", "default_language">>,
     <<"form_id", "version">>,
     <<"version">>}

SettingsCells ==
    [c \in UNION {Range(l) : l \in SettingsColumnLists} |->
        IF c = "form_title" THEN {NaN, Empty, Str(<<"T">>)}
        ELSE IF c = "form_id" THEN {NaN, Str(<<"i", "d">>)}
        ELSE IF c = "default_language" THEN {Str(<<"French">>), Str(<<"English">>)}
        ELSE {Str(<<"1">>)}]

SettingsTables ==
    UNION {Tables(l, SettingsCells, MaxWideRows) : l \in SettingsColumnLists} \cup {NoneDf}

FormNames == {<<>>, <<"f">>, <<"M", "y", " ", "F", "-", "1">>}

InitSettings == InitCall("fix_settings_sheet", SettingsTables, FormNames)

CallSettings == Call("fix_settings_sheet", fix_settings_sheet(arg, name_arg))

SpecSettings == InitSettings /\ [][CallSettings]_vars

(* remove_redundant_columns *)

PruneColumnLists ==
    {<<"name", "x", "style">>,
     <<"x", "y", "readonly">>,
     <<"autoplay", "publishable">>}

PruneCells ==
    [c \in UNION {Range(l) : l \in PruneColumnLists} |->
        IF c = "name" THEN {Q}
        ELSE IF c \in unused_columns THEN {NaN, Str(<<c>>)}
        ELSE IF c = "y" THEN {None, Empty}
        ELSE {NaN, Empty, Str(<<c>>)}]

PruneTables == UNION {Tables(l, PruneCells, MaxWideRows) : l \in PruneColumnLists}

InitPrune == InitCall("remove_redundant_columns", PruneTables, NoName)

CallPrune == Call("remove_redundant_columns", remove_redundant_columns(arg))

SpecPrune == InitPrune /\ [][CallPrune]_vars

(* The stages the specification calls fixed points, run twice *)

RecallTypes == Recall("fix_field_types", fix_field_types(ret))

RecallCalc == Recall("clean_calculation_fields", clean_calculation_fields(ret))

RecallDefaults == Recall("clean_default_values", clean_default_values(ret))

RecallSettings == Recall("fix_settings_sheet", fix_settings_sheet(ret, name_arg))

RecallPrune == Recall("remove_redundant_columns", remove_redundant_columns(ret))

InitFixedPoints ==
    \/ InitTypes \/ InitCalc \/ InitDefaults \/ InitSettings \/ InitPrune

NextFixedPoints ==
    \/ CallTypes \/ CallCalc \/ CallDefaults \/ CallSettings \/ CallPrune
    \/ RecallTypes \/ RecallCalc \/ RecallDefaults \/ RecallSettings \/ RecallPrune

SpecFixedPoints == InitFixedPoints /\ [][NextFixedPoints]_vars

(* Every stage function *)

InitStages ==
    \/ InitNames \/ InitTypes \/ InitGroups \/ InitLang \/ InitFallbacks
    \/ InitCalc \/ InitDefaults \/ InitCascade \/ InitSettings \/ InitPrune

NextStages ==
    \/ CallNames \/ CallTypes \/ CallGroups \/ CallLang \/ CallFallbacks
    \/ CallCalc \/ CallDefaults \/ CallCascade \/ CallSettings \/ CallPrune

SpecStages == InitStages /\ [][NextStages]_vars

-----------------------------------------------------------------------------
(* The wizard: st.session_state, the step functions and their buttons.     *)
(* A state is the session after a script run has rendered the current      *)
(* step; an action is one click or upload: the handler, st.rerun() and the *)
(* rendering of the step the rerun shows.  The data editors of step 2      *)
(* return the table they are given.                                        *)

STEPS ==
    <<"Upload File", "Load Core Sheets", "Normalize Language Columns",
      "Fix Field Types", "Apply Label Fallbacks", "Clean Calculation Fields",
      "Remove Invalid Defaults", "Normalize Field Names",
      "Validate Group & Repeat Logic", "Fix Cascading Selects",
      "Check Settings Sheet", "Remove Redundant Columns", "Export File">>

Put(ss, key, value) == [k \in DOMAIN ss \cup {key} |-> IF k = key THEN value ELSE ss[k]]

\* A pop that leaves the key in the session
PopNothing(ss, key) == ss

Pop(ss, key) == [k \in DOMAIN ss \ {key} |-> ss[k]]

\* st.session_state.<key> is there and is not None
Has(ss, key) == key \in DOMAIN ss /\ ss[key] # NoneDf

go_next(ss) ==
    IF ss["current_step"] < Len(STEPS) - 1
    THEN Put(ss, "current_step", ss["current_step"] + 1) ELSE ss

\* A go_back that forgets the uploaded edits
go_back_forgetting(ss) ==
    IF ss["current_step"] > 0
    THEN Put(Put(ss, "current_step", ss["current_step"] - 1),
             "edited_dfs", [k \in {} |-> NoneDf])
    ELSE ss

go_back(ss) ==
    IF ss["current_step"] > 0
    THEN Put(ss, "current_step", ss["current_step"] - 1) ELSE ss

\* os.path.splitext(file_name)[0]; the last atom of a file name is its extension
splitext(file_name) == SubSeq(file_name, 1, Len(file_name) - 1)

\* df.dropna(how = 'all') : the rows with a value, under their old labels
dropna_rows(df) ==
    FilterRows(df, [i \in 1..NRows(df) |-> \E c \in Cols(df) : ~isna(df.rows[i][c])])

\* df.fillna("") and astype(str), on cells that are text or missing
safe_df_for_editor(df) ==
    IF df = NoneDf THEN NoneDf
    ELSE [df EXCEPT !.rows = [i \in DOMAIN @ |->
            [c \in Cols(df) |-> IF isna(@[i][c]) THEN Empty ELSE @[i][c]]]]

basic_settings(form_name) ==
    DataFrame(<<"form_title", "form_id", "default_language">>,
        <<[c \in {"form_title", "form_id", "default_language"} |->
            CASE c = "form_title" -> Str(form_name)
              [] c = "form_id" -> Str(normalize_name(Str(form_name)))
              [] c = "default_language" -> Str(<<"English">>)]>>)

\* Buttons under a missing survey sheet too
load_buttons_always(file) == TRUE

\* step_load_core_sheets shows its editors and buttons: the workbook opens
\* and has a survey sheet
load_buttons(file) ==
    /\ file # NoneDf
    /\ file.readable
    /\ "survey" \in DOMAIN file.sheets

\* step_load_core_sheets up to its buttons
load_core_sheets(ss) ==
    LET file == ss["uploaded_file"] IN
    IF file = NoneDf \/ ~file.readable \/ "survey" \notin DOMAIN file.sheets
    THEN ss
    ELSE LET survey_df == dropna_rows(file.sheets["survey"])
             choices_df ==
                IF "choices" \in DOMAIN file.sheets
                THEN dropna_rows(file.sheets["choices"])
                ELSE DataFrame(<<"list_name", "name", "label">>, <<>>)
             settings_df ==
                IF "settings" \in DOMAIN file.sheets
                THEN dropna_rows(file.sheets["settings"])
                ELSE basic_settings(ss["form_name"])
             loaded == Put(Put(Put(ss, "survey_df", survey_df),
                               "choices_df", choices_df),
                           "settings_df", settings_df)
             edited == [k \in DOMAIN ss["edited_dfs"] \cup {"survey", "choices", "settings"} |->
                          CASE k = "survey" -> safe_df_for_editor(survey_df)
                            [] k = "choices" -> safe_df_for_editor(choices_df)
                            [] k = "settings" -> safe_df_for_editor(settings_df)
                            [] OTHER -> ss["edited_dfs"][k]]
         IN Put(loaded, "edited_dfs", edited)

\* fn(df): the callee works on the stored table itself
call_in_place(df, outcome) == [raised |-> outcome.raised, df |-> outcome.df, ret |-> outcome.ret]

\* fn(df.copy()): the callee works on a copy, the stored table keeps its value
call_on_copy(df, outcome) == [raised |-> outcome.raised, df |-> df, ret |-> outcome.ret]

\* A step that stores fn(session[from].copy()) under `to`, once per visit
stage_step(ss, from, to, flag, outcome) ==
    IF ~Has(ss, from) \/ flag \in DOMAIN ss THEN ss
    ELSE LET call == call_on_copy(ss[from], outcome) IN
         IF call.raised THEN ss
         ELSE Put(Put(Put(ss, from, call.df), to, call.ret), flag, TRUE)

step_normalize_language_columns(ss) ==
    IF ~Has(ss, "survey_df") \/ "language_normalized" \in DOMAIN ss THEN ss
    ELSE LET survey == call_on_copy(ss["survey_df"],
                            normalize_language_columns(ss["survey_df"]))
             s1 == Put(Put(ss, "survey_df", survey.df),
                       "normalized_survey_df", survey.ret)
             s2 == IF s1["choices_df"] # NoneDf
                   THEN LET choices == call_on_copy(s1["choices_df"],
                                normalize_language_columns(s1["choices_df"]))
                        IN Put(Put(s1, "choices_df", choices.df),
                               "normalized_choices_df", choices.ret)
                   ELSE Put(s1, "normalized_choices_df", NoneDf)
         IN Put(s2, "language_normalized", TRUE)

step_fix_cascading_selects(ss) ==
    IF ~Has(ss, "groups_survey_df") \/ "cascading_fixed" \in DOMAIN ss THEN ss
    ELSE IF ss["normalized_choices_df"] # NoneDf
    THEN LET call == call_on_copy(ss["normalized_choices_df"],
                        fix_cascading_selects(ss["normalized_choices_df"]))
         IN IF call.raised THEN ss
            ELSE Put(Put(Put(ss, "normalized_choices_df", call.df),
                         "cascading_choices_df", call.ret),
                     "cascading_fixed", TRUE)
    ELSE Put(Put(ss, "cascading_choices_df", create_standard_location_choices),
             "cascading_fixed", TRUE)

step_remove_redundant_columns(ss) ==
    IF ~Has(ss, "groups_survey_df") \/ ~Has(ss, "cascading_choices_df")
       \/ "columns_cleaned" \in DOMAIN ss
    THEN ss
    ELSE LET survey == call_on_copy(ss["groups_survey_df"],
                            remove_redundant_columns(ss["groups_survey_df"]))
             choices == call_on_copy(ss["cascading_choices_df"],
                            remove_redundant_columns(ss["cascading_choices_df"]))
         IN Put(Put(Put(Put(Put(ss, "groups_survey_df", survey.df),
                                "final_survey_df", survey.ret),
                            "cascading_choices_df", choices.df),
                        "final_choices_df", choices.ret),
                "columns_cleaned", TRUE)

\* The flag that says a step has computed its tables
StepFlag ==
    [k \in 2..11 |->
        CASE k = 2 -> "language_normalized"
          [] k = 3 -> "field_types_fixed"
          [] k = 4 -> "fallbacks_applied"
          [] k = 5 -> "calculations_cleaned"
          [] k = 6 -> "defaults_cleaned"
          [] k = 7 -> "names_normalized"
          [] k = 8 -> "groups_validated"
          [] k = 9 -> "cascading_fixed"
          [] k = 10 -> "settings_fixed"
          [] k = 11 -> "columns_cleaned"]

\* main(): the step function of the current step, up to its buttons
Render(ss) ==
    LET k == ss["current_step"] IN
    CASE k = 1 -> load_core_sheets(ss)
      [] k = 2 -> step_normalize_language_columns(ss)
      [] k = 3 -> stage_step(ss, "normalized_survey_df", "fixed_survey_df",
                             StepFlag[3], fix_field_types(ss["normalized_survey_df"]))
      [] k = 4 -> stage_step(ss, "fixed_survey_df", "fallback_survey_df",
                             StepFlag[4], apply_fallbacks(ss["fixed_survey_df"]))
      [] k = 5 -> stage_step(ss, "fallback_survey_df", "calculation_survey_df",
                             StepFlag[5], clean_calculation_fields(ss["fallback_survey_df"]))
      [] k = 6 -> stage_step(ss, "calculation_survey_df", "defaults_survey_df",
                             StepFlag[6], clean_default_values(ss["calculation_survey_df"]))
      [] k = 7 -> stage_step(ss, "defaults_survey_df", "names_survey_df",
                             StepFlag[7], ensure_unique_names(ss["defaults_survey_df"]))
      [] k = 8 -> stage_step(ss, "names_survey_df", "groups_survey_df",
                             StepFlag[8], validate_group_repeat_logic(ss["names_survey_df"]))
      [] k = 9 -> step_fix_cascading_selects(ss)
      [] k = 10 -> stage_step(ss, "settings_df", "fixed_settings_df", StepFlag[10],
                              fix_settings_sheet(ss["settings_df"], ss["form_name"]))
      [] k = 11 -> step_remove_redundant_columns(ss)
      [] OTHER -> ss

\* The tables a step needs before it shows anything
StepGuards ==
    [k \in 2..12 |->
        CASE k = 2 -> {"survey_df"}
          [] k = 3 -> {"normalized_survey_df"}
          [] k = 4 -> {"fixed_survey_df"}
          [] k = 5 -> {"fallback_survey_df"}
          [] k = 6 -> {"calculation_survey_df"}
          [] k = 7 -> {"defaults_survey_df"}
          [] k = 8 -> {"names_survey_df"}
          [] k = 9 -> {"groups_survey_df"}
          [] k = 10 -> {"settings_df"}
          [] k = 11 -> {"groups_survey_df", "cascading_choices_df"}
          [] k = 12 -> {"final_survey_df", "final_choices_df", "fixed_settings_df"}]

\* The rendered step got as far as its uploaders and buttons: it did not
\* return early and no stage raised
Buttons(ss) ==
    LET k == ss["current_step"] IN
    CASE k = 0 -> TRUE
      [] k = 1 -> load_buttons(ss["uploaded_file"])
      [] k = 12 -> \A g \in StepGuards[12] : Has(ss, g)
      [] OTHER -> (\A g \in StepGuards[k] : Has(ss, g)) /\ StepFlag[k] \in DOMAIN ss

\* What "Next" copies from edited_dfs: <<key of edited_dfs, key of the session>>
StepEdits ==
    [k \in 1..11 |->
        CASE k = 1 -> <<<<"survey", "survey_df">>, <<"choices", "choices_df">>,
                        <<"settings", "settings_df">>>>
          [] k = 2 -> <<<<"normalized_survey", "normalized_survey_df">>,
                        <<"normalized_choices", "normalized_choices_df">>>>
          [] k = 3 -> <<<<"fixed_survey", "fixed_survey_df">>>>
          [] k = 4 -> <<<<"fallback_survey", "fallback_survey_df">>>>
          [] k = 5 -> <<<<"calculation_survey", "calculation_survey_df">>>>
          [] k = 6 -> <<<<"defaults_survey", "defaults_survey_df">>>>
          [] k = 7 -> <<<<"names_survey", "names_survey_df">>>>
          [] k = 8 -> <<<<"groups_survey", "groups_survey_df">>>>
          [] k = 9 -> <<<<"cascading_choices", "cascading_choices_df">>>>
          [] k = 10 -> <<<<"fixed_settings", "fixed_settings_df">>>>
          [] k = 11 -> <<<<"final_survey", "final_survey_df">>,
                         <<"final_choices", "final_choices_df">>>>]

\* The choices uploader and the choices edit of step 3 exist only beside a
\* normalized choices table
EditOffered(ss, k, edit) ==
    (k = 2 /\ edit[1] = "normalized_choices") => ss["normalized_choices_df"] # NoneDf

RECURSIVE take_edits(_, _, _)
take_edits(ss, k, edits) ==
    IF edits = <<>> THEN ss
    ELSE LET edit == Head(edits) IN
         take_edits(
            IF edit[1] \in DOMAIN ss["edited_dfs"] /\ EditOffered(ss, k, edit)
            THEN Put(ss, edit[2], ss["edited_dfs"][edit[1]])
            ELSE ss,
            k, Tail(edits))

\* def csv_to_df: the table pd.read_csv makes of the file, None when it raises
\* csv_to_df handing on an empty table when pd.read_csv raises
csv_to_df_empty(uploaded_file) ==
    IF uploaded_file.parses THEN uploaded_file.table ELSE DataFrame(<<>>, <<>>)

csv_to_df(uploaded_file) ==
    IF uploaded_file.parses THEN uploaded_file.table ELSE NoneDf

(* Files the user has *)

Workbook(file_name, sheets) == [file_name |-> file_name, readable |-> TRUE, sheets |-> sheets]

SurveySheet ==
    DataFrame(<<"type", "name", "label", "hint::English", "calculation", "default">>,
      <<[c \in {"type", "name", "label", "hint::English", "calculation", "default"} |->
            CASE c = "type" -> Str(<<"begin", " ", "group">>)
              [] c = "name" -> Str(<<"G", " ", "1">>)
              [] c = "label" -> Str(<<"Household">>)
              [] OTHER -> NaN],
        [c \in {"type", "name", "label", "hint::English", "calculation", "default"} |-> NaN],
        [c \in {"type", "name", "label", "hint::English", "calculation", "default"} |->
            CASE c = "type" -> Str(<<"deviceid">>)
              [] c = "name" -> Str(<<"g", "_", "1">>)
              [] c = "calculation" -> Str(<<"pulldata(", "x", ")">>)
              [] c = "default" -> Str(<<"${", "a", "}">>)
              [] OTHER -> NaN]>>)

PlainSurveySheet ==
    DataFrame(<<"type", "name">>,
      <<[c \in {"type", "name"} |->
            IF c = "type" THEN Str(<<"select_one", " ", "sGovernorate", "List">>)
            ELSE Str(<<"Gov">>)]>>)

NamelessSurveySheet ==
    DataFrame(<<"type", "label">>,
      <<[c \in {"type", "label"} |->
            IF c = "type" THEN Str(<<"text">>) ELSE Str(<<"Age">>)]>>)

ChoicesSheet ==
    DataFrame(<<"list_name", "name", "label">>,
      <<[c \in {"list_name", "name", "label"} |->
            CASE c = "list_name" -> Str(<<"yesno">>)
              [] c = "name" -> Str(<<"yes">>)
              [] c = "label" -> Str(<<"Yes">>)],
        [c \in {"list_name", "name", "label"} |->
            CASE c = "list_name" -> Str(<<"governorate">>)
              [] c = "name" -> Str(<<"mosul">>)
              [] c = "label" -> Str(<<"Mosul">>)]>>)

SettingsSheet ==
    DataFrame(<<"form_title", "default_language">>,
      <<[c \in {"form_title", "default_language"} |->
            IF c = "form_title" THEN Str(<<"Census">>) ELSE Str(<<"French">>)]>>)

Workbooks ==
    {Workbook(<<"F", "1", ".xlsx">>,
        [n \in {"survey", "choices", "settings"} |->
            CASE n = "survey" -> SurveySheet
              [] n = "choices" -> ChoicesSheet
              [] n = "settings" -> SettingsSheet]),
     Workbook(<<"f", ".xls">>, [n \in {"survey"} |-> PlainSurveySheet]),
     Workbook(<<"n", ".xlsx">>,
        [n \in {"survey", "settings"} |->
            IF n = "survey" THEN NamelessSurveySheet ELSE SettingsSheet]),
     Workbook(<<"c", ".xlsx">>,
        [n \in {"choices", "settings"} |->
            IF n = "choices" THEN ChoicesSheet ELSE SettingsSheet]),
     [Workbook(<<"x", ".xlsx">>, [n \in {} |-> NoTable]) EXCEPT !.readable = FALSE]}

CsvFiles ==
    {[parses |-> TRUE,
      table |-> DataFrame(<<"type", "name">>,
                  <<[c \in {"type", "name"} |->
                        IF c = "type" THEN Str(<<"begin", " ", "repeat">>)
                        ELSE Str(<<"Edited">>)]>>)],
     [parses |-> FALSE, table |-> NoTable]}

(* Actions *)

IdleCall ==
    /\ stage = ""
    /\ arg0 = NoTable
    /\ arg = NoTable
    /\ ret = NoTable
    /\ same = FALSE
    /\ pc = "idle"
    /\ name_arg = <<>>

InitWizard ==
    /\ IdleCall
    /\ session_state = FreshSession
    /\ uploads = 0
    /\ uploader = NoneDf

CallVars == <<stage, arg0, arg, ret, same, pc, name_arg>>

\* step_upload_file: "Proceed to Next Step" with a file in the uploader
Proceed ==
    /\ session_state["current_step"] = 0
    /\ uploads < MaxUploads
    /\ \E uploaded_file \in Workbooks :
        session_state' =
            Render(go_next(Put(Put(session_state, "uploaded_file", uploaded_file),
                               "form_name", splitext(uploaded_file.file_name))))
    /\ uploads' = uploads + 1
    /\ uploader' = NoneDf
    /\ UNCHANGED CallVars

\* "Next" of the steps 2 to 12
Next ==
    /\ session_state["current_step"] \in 1..11
    /\ Buttons(session_state)
    /\ session_state' =
        Render(go_next(take_edits(session_state, session_state["current_step"],
                                  StepEdits[session_state["current_step"]])))
    /\ uploader' = NoneDf
    /\ UNCHANGED <<CallVars, uploads>>

\* "Back" of step 2
BackToUpload ==
    /\ session_state["current_step"] = 1
    /\ Buttons(session_state)
    /\ session_state' =
        Render(go_back(Put(Put(Put(session_state, "survey_df", NoneDf),
                               "choices_df", NoneDf),
                           "settings_df", NoneDf)))
    /\ uploader' = NoneDf
    /\ UNCHANGED <<CallVars, uploads>>

\* "Back" of the steps 3 to 12
Back ==
    /\ session_state["current_step"] \in 2..11
    /\ Buttons(session_state)
    /\ session_state' =
        Render(go_back(Pop(session_state, StepFlag[session_state["current_step"]])))
    /\ uploader' = NoneDf
    /\ UNCHANGED <<CallVars, uploads>>

\* "Back to Previous Step" of step 13
BackFromExport ==
    /\ session_state["current_step"] = 12
    /\ Buttons(session_state)
    /\ session_state' = Render(go_back(session_state))
    /\ uploader' = NoneDf
    /\ UNCHANGED <<CallVars, uploads>>

\* "Start Over": every key but current_step is popped, the rerun gives the
\* session its defaults again
StartOver ==
    /\ session_state["current_step"] = 12
    /\ Buttons(session_state)
    /\ session_state' = Render(FreshSession)
    /\ uploads' = 0
    /\ uploader' = NoneDf
    /\ UNCHANGED CallVars

\* An edited CSV put into an uploader of the steps 3 to 12
UploadCsv ==
    /\ session_state["current_step"] \in 2..11
    /\ Buttons(session_state)
    /\ uploads < MaxUploads
    /\ \E edit \in Range(StepEdits[session_state["current_step"]]),
          uploaded_file \in CsvFiles :
        /\ EditOffered(session_state, session_state["current_step"], edit)
        /\ session_state' =
            IF csv_to_df(uploaded_file) # NoneDf
            THEN Put(session_state, "edited_dfs",
                     Put(session_state["edited_dfs"], edit[1], csv_to_df(uploaded_file)))
            ELSE session_state
        /\ uploader' = [key |-> edit[1], file |-> uploaded_file]
    /\ uploads' = uploads + 1
    /\ UNCHANGED CallVars

NextWizard ==
    \/ Proceed \/ Next \/ BackToUpload \/ Back \/ BackFromExport
    \/ StartOver \/ UploadCsv

SpecWizard == InitWizard /\ [][NextWizard]_vars

-----------------------------------------------------------------------------
(* Properties *)

Done(fn) == stage = fn /\ pc = "returned"

\* The rows whose type, stripped as the scan strips it, is the marker
MarkerRows(df, marker) ==
    IF "type" \notin Cols(df) THEN {}
    ELSE {i \in 1..NRows(df) :
            /\ ~is_empty(df.rows[i]["type"])
            /\ strip(df.rows[i]["type"].v) = marker}

CountRows(df, marker) == Cardinality(MarkerRows(df, marker))

BeginGroup == <<"begin", " ", "group">>
EndGroup == <<"end", " ", "group">>
BeginRepeat == <<"begin", " ", "repeat">>
EndRepeat == <<"end", " ", "repeat">>

\* No end marker stands where no section of its kind is open
NoStrayEnd(df, begin, end) ==
    \A n \in 0..NRows(df) :
        Cardinality(MarkerRows(df, end) \cap 1..n)
            <= Cardinality(MarkerRows(df, begin) \cap 1..n)

\* C1: after ensure_unique_names the non-blank values of the name column
\* are pairwise distinct.
C1_NamesPairwiseDistinct ==
    Done("ensure_unique_names") =>
        \A i, j \in 1..NRows(ret) :
            (/\ i # j
             /\ ~is_empty(ret.rows[i]["name"])
             /\ ~is_empty(ret.rows[j]["name"]))
            => ret.rows[i]["name"] # ret.rows[j]["name"]

\* C2 as stated: after validate_group_repeat_logic the begin group rows are
\* as many as the end group rows, and the begin repeat rows as many as the
\* end repeat rows.
C2_CountsBalance ==
    Done("validate_group_repeat_logic") =>
        /\ CountRows(ret, BeginGroup) = CountRows(ret, EndGroup)
        /\ CountRows(ret, BeginRepeat) = CountRows(ret, EndRepeat)

\* C2 amended: after validate_group_repeat_logic no kind has more begin rows
\* than end rows, and a kind with no stray end marker in the input has as
\* many begin rows as end rows.
C2_EveryBeginHasAnEnd ==
    Done("validate_group_repeat_logic") =>
        /\ CountRows(ret, BeginGroup) <= CountRows(ret, EndGroup)
        /\ CountRows(ret, BeginRepeat) <= CountRows(ret, EndRepeat)
        /\ NoStrayEnd(arg0, BeginGroup, EndGroup)
            => CountRows(ret, BeginGroup) = CountRows(ret, EndGroup)
        /\ NoStrayEnd(arg0, BeginRepeat, EndRepeat)
            => CountRows(ret, BeginRepeat) = CountRows(ret, EndRepeat)

\* An unclosed group and an unclosed repeat were closed, beside a stray end
C2_Witness ==
    /\ Done("validate_group_repeat_logic")
    /\ CountRows(arg0, BeginGroup) > CountRows(arg0, EndGroup)
    /\ ~NoStrayEnd(arg0, BeginRepeat, EndRepeat)
    /\ NRows(ret) > NRows(arg0)

\* C3: after fix_field_types every type cell is blank, a member of the
\* standard-type list, or begins with 'select_one ' or 'select_multiple '.
C3_TypesInVocabulary ==
    (Done("fix_field_types") /\ "type" \in Cols(ret)) =>
        \A i \in 1..NRows(ret) :
            LET t == ret.rows[i]["type"] IN
            \/ is_empty(t)
            \/ t.v \in standard_types
            \/ startswith(t.v, <<"select_one", " ">>)
            \/ startswith(t.v, <<"select_multiple", " ">>)

\* C4: after normalize_language_columns the four canonical columns are
\* there and no other entry of the four alias lists is left.
C4_AliasColumnsRemoved ==
    Done("normalize_language_columns") =>
        /\ Range(canonical_columns) \subseteq Cols(ret)
        /\ Cols(ret) \cap ((label_english_patterns \cup label_arabic_patterns
                            \cup hint_english_patterns \cup hint_arabic_patterns)
                           \ Range(canonical_columns)) = {}

\* C5: after remove_redundant_columns no column is left that is blank (per
\* is_empty) in every row, and none of style, readonly, publishable, autoplay.
C5_NoBlankColumnRemains ==
    Done("remove_redundant_columns") =>
        \A c \in Cols(ret) :
            /\ c \notin unused_columns
            /\ \E i \in 1..NRows(ret) : ~is_empty(ret.rows[i][c])

HasName(df, i) == "name" \in Cols(df) /\ ~is_empty(df.rows[i]["name"])

OtherRows(df) ==
    IF "list_name" \notin Cols(df) THEN <<>>
    ELSE SelectSeq([i \in 1..NRows(df) |-> i],
                   LAMBDA i : df.rows[i]["list_name"] \notin reserved_lists)

\* C7: after fix_cascading_selects the rows of the three reserved lists are
\* the nine seed rows, and the rows of every other list are the input's, in
\* number and content (a column the other side brought is blank in them).
C7_SeedsReplaceReservedLists ==
    (Done("fix_cascading_selects") /\ arg0 # NoneDf) =>
        LET seed == create_standard_location_choices
            others == IF NRows(arg0) = 0 THEN <<>> ELSE OtherRows(arg0)
            n == Len(others)
        IN /\ NRows(ret) = n + 9
           /\ \A j \in 1..n :
                /\ ret.rows[j]["list_name"] \notin reserved_lists
                /\ \A c \in Cols(arg0) : ret.rows[j][c] = arg0.rows[others[j]][c]
                /\ \A c \in Cols(ret) \ Cols(arg0) : isna(ret.rows[j][c])
           /\ \A k \in 1..9 :
                /\ ret.rows[n + k]["list_name"] \in reserved_lists
                /\ \A c \in Cols(seed) : ret.rows[n + k][c] = seed.rows[k][c]
                /\ \A c \in Cols(ret) \ Cols(seed) : isna(ret.rows[n + k][c])

\* Rows of a reserved list stood between rows of another list
C7_Witness ==
    /\ Done("fix_cascading_selects")
    /\ arg0 # NoneDf
    /\ Len(OtherRows(arg0)) >= 2
    /\ \E i \in 1..NRows(arg0) :
        /\ arg0.rows[i]["list_name"] \in reserved_lists
        /\ \E j \in Range(OtherRows(arg0)) : i < j
        /\ \E j \in Range(OtherRows(arg0)) : j < i

\* C8: every stage function returns a table, whatever table it is given.
C8_StagesNeverRaise == pc # "raised"

\* C9 as stated: every stage leaves the table it was given unchanged and
\* returns another object.
C9_InputUntouched == pc = "returned" => (arg = arg0 /\ ~same)

SameObjectStages ==
    {"ensure_unique_names", "fix_field_types", "apply_fallbacks",
     "clean_calculation_fields", "clean_default_values"}

\* C9 amended: fix_cascading_selects and remove_redundant_columns leave the
\* table they were given unchanged and return another object, as
\* fix_settings_sheet does for absent or empty settings; the other stages
\* edit the given table: five return the object they were given, as
\* fix_settings_sheet does for settings with a row and
\* validate_group_repeat_logic for a table without a type column;
\* normalize_language_columns and validate_group_repeat_logic otherwise put
\* their new columns and rows into the given table and return another object.
C9_OnlyTwoStagesSpareTheirInput ==
    pc = "returned" =>
        /\ stage \in {"fix_cascading_selects", "remove_redundant_columns"}
            => (arg = arg0 /\ ~same)
        /\ stage \in SameObjectStages => (same /\ arg = ret)
        /\ stage = "fix_settings_sheet"
            => /\ same = (arg0 # NoneDf /\ NRows(arg0) > 0)
               /\ IF same THEN arg = ret ELSE arg = arg0
        /\ stage = "normalize_language_columns"
            => /\ ~same
               /\ Range(canonical_columns) \subseteq Cols(arg)
               /\ ret = DropColumns(arg, Cols(arg) \ Cols(ret))
        /\ stage = "validate_group_repeat_logic"
            => /\ same = ("type" \notin Cols(arg0))
               /\ NRows(arg) = NRows(ret)

\* A stage has changed the table it was given
C9_Witness == pc = "returned" /\ same /\ arg # arg0


(* The wizard *)

\* The workbook opens and has no sheet named survey
NoSurvey(file) ==
    /\ file # NoneDf
    /\ file.readable
    /\ "survey" \notin DOMAIN file.sheets

\* The tables the stages have stored and the flags that say so
StageKeys ==
    {"normalized_survey_df", "normalized_choices_df", "fixed_survey_df",
     "fallback_survey_df", "calculation_survey_df", "defaults_survey_df",
     "names_survey_df", "groups_survey_df", "cascading_choices_df",
     "fixed_settings_df", "final_survey_df", "final_choices_df"}
    \cup Range([k \in 1..10 |-> StepFlag[k + 1]])

StageOutputs(ss) == [k \in DOMAIN ss \cap StageKeys |-> ss[k]]

\* C10: whenever a click leaves the session holding a workbook without a
\* survey sheet, the wizard is at Upload File or Load Core Sheets and the
\* click has applied no stage: every stored stage output and every stage
\* flag is what it was before the click.
C10_NoSurveyStopsThePipeline ==
    [][NoSurvey(session_state'["uploaded_file"]) =>
            /\ session_state'["current_step"] <= 1
            /\ StageOutputs(session_state') = StageOutputs(session_state)]_vars

\* A workbook without a survey sheet was uploaded into a session that still
\* holds the outputs of an earlier workbook's complete run
C10_Witness ==
    /\ NoSurvey(session_state["uploaded_file"])
    /\ session_state["current_step"] = 1
    /\ "final_survey_df" \in DOMAIN session_state
    /\ "survey" \in DOMAIN session_state["edited_dfs"]


(* clean_calculation_fields *)

\* A cell of the row in one of the five checked columns holds a fragment of
\* the denylist
Flagged(df, i) ==
    \E c \in Range(check_cols) \cap Cols(df), k \in DOMAIN invalid_patterns :
        /\ df.rows[i][c].k = "str"
        /\ contains(df.rows[i][c].v, invalid_patterns[k])

\* C11: after clean_calculation_fields every row that had a denylist
\* fragment in calculation, required, relevant, constraint or choice_filter
\* has the type 'text' and a blank calculation cell.
C11_FlaggedRowsBecomeText ==
    Done("clean_calculation_fields") =>
        \A i \in 1..NRows(arg0) :
            Flagged(arg0, i) =>
                /\ "type" \in Cols(ret)
                /\ ret.rows[i]["type"] = Str(<<"text">>)
                /\ "calculation" \in Cols(ret) => is_empty(ret.rows[i]["calculation"])

(* fix_settings_sheet *)

\* C12: whatever the settings and the form name, the table fix_settings_sheet
\* returns has the columns form_title, form_id and default_language, and
\* its default_language is 'English' in every row.
C12_SettingsCarryTheThreeFields ==
    Done("fix_settings_sheet") =>
        /\ {"form_title", "form_id", "default_language"} \subseteq Cols(ret)
        /\ \A i \in 1..NRows(ret) :
            ret.rows[i]["default_language"] = Str(<<"English">>)

\* Settings with two rows that named another default language
C12_Witness ==
    /\ Done("fix_settings_sheet")
    /\ arg0 # NoneDf
    /\ NRows(arg0) = 2
    /\ "default_language" \in Cols(arg0)
    /\ \A i \in 1..NRows(arg0) : arg0.rows[i]["default_language"] = Str(<<"French">>)
    /\ NRows(ret) = 2

(* Edited CSV files *)

\* A file has just been put into an uploader and pd.read_csv cannot read it
FailedUpload ==
    /\ uploader' # NoneDf
    /\ uploader' # uploader \/ uploads' # uploads
    /\ ~uploader'.file.parses

\* What "Next" of the shown step would leave in the session
AfterNext(ss) ==
    Render(go_next(take_edits(ss, ss["current_step"], StepEdits[ss["current_step"]])))

\* C13: an edited CSV that cannot be parsed changes nothing in the session:
\* edited_dfs and every stored table are what they were, and the Next that
\* follows hands on what it would have handed on without the upload.
C13_FailedUploadKeepsTheSession ==
    [][FailedUpload =>
            /\ session_state' = session_state
            /\ AfterNext(session_state') = AfterNext(session_state)]_vars

\* An unreadable CSV sits in the final-survey uploader of Remove Redundant
\* Columns, and the session holds the tables and edits made on the way there
C13_Witness ==
    /\ uploader # NoneDf
    /\ ~uploader.file.parses
    /\ uploader.key = "final_survey"
    /\ session_state["current_step"] = 11
    /\ "final_survey" \notin DOMAIN session_state["edited_dfs"]
    /\ "final_survey_df" \in DOMAIN session_state

(* Stages run on their own output *)

DoneAgain(fn) == stage = fn /\ pc = "returned again"

\* C14: normalize_language_columns called on the table it returned returns
\* that table again, with the same columns and the same cells.
C14_LanguageNormalizerIdempotent ==
    DoneAgain("normalize_language_columns") => ret = arg0

\* The second call met a table that still has an alias column with text in
\* it, beside the canonical columns the first call made
C14_Witness ==
    /\ DoneAgain("normalize_language_columns")
    /\ "label" \in Cols(arg0)
    /\ Len(arg0.columns) > 4
    /\ \E i \in 1..NRows(arg0) :
        /\ ~is_empty(arg0.rows[i]["label"])
        /\ arg0.rows[i]["label::English"] # arg0.rows[i]["label"]

\* C15: fix_field_types, clean_calculation_fields, clean_default_values,
\* fix_settings_sheet (with the same form name) and remove_redundant_columns
\* each return, when called on the table they returned, that table again.
C15_StagesAreFixedPoints ==
    (\E fn \in {"fix_field_types", "clean_calculation_fields", "clean_default_values",
                "fix_settings_sheet", "remove_redundant_columns"} : DoneAgain(fn))
        => ret = arg0

\* The second call of clean_calculation_fields met a row it flags again:
\* the first call made it 'text' and left the fragment in another column
C15_Witness ==
    /\ DoneAgain("clean_calculation_fields")
    /\ "type" \in Cols(arg0)
    /\ \E i \in 1..NRows(arg0) :
        /\ Flagged(arg0, i)
        /\ arg0.rows[i]["type"] = Str(<<"text">>)

(* validate_group_repeat_logic *)

\* Two 'begin repeat', one 'end repeat', one 'begin group', one 'end group'
TwoRepeatsOneEnd(df) ==
    /\ "type" \in Cols(df)
    /\ CountRows(df, BeginRepeat) = 2
    /\ CountRows(df, EndRepeat) = 1
    /\ CountRows(df, BeginGroup) = 1
    /\ CountRows(df, EndGroup) = 1

\* The output is the input with one 'end repeat' row after it
OneEndRepeatAppended ==
    /\ NRows(ret) = NRows(arg0) + 1
    /\ \A i \in 1..NRows(arg0) : ret.rows[i] = arg0.rows[i]
    /\ ret.rows[NRows(ret)]["type"] = Str(EndRepeat)

\* C16 as stated: on a table with two 'begin repeat', one 'end repeat', one
\* 'begin group' and one 'end group', in any row order,
\* validate_group_repeat_logic appends one row, an 'end repeat', last.
C16_AnyOrderOneEndRepeat ==
    (Done("validate_group_repeat_logic") /\ TwoRepeatsOneEnd(arg0))
        => OneEndRepeatAppended

\* C16 amended: on such a table in which no 'end repeat' and no 'end group'
\* stands where no section of its kind is open, validate_group_repeat_logic
\* appends one row, an 'end repeat', last.
C16_OneEndRepeatWhenNoStrayEnd ==
    (/\ Done("validate_group_repeat_logic")
     /\ TwoRepeatsOneEnd(arg0)
     /\ NoStrayEnd(arg0, BeginRepeat, EndRepeat)
     /\ NoStrayEnd(arg0, BeginGroup, EndGroup))
        => OneEndRepeatAppended

\* Such a table, with a row that is no marker, has been closed
C16_Witness ==
    /\ Done("validate_group_repeat_logic")
    /\ TwoRepeatsOneEnd(arg0)
    /\ NoStrayEnd(arg0, BeginRepeat, EndRepeat)
    /\ NoStrayEnd(arg0, BeginGroup, EndGroup)
    /\ NRows(arg0) = 6
    /\ NRows(ret) = 7

\* The marker a row carries, read as the scan reads it ("" for any other row)
MarkerOf(df, i) ==
    LET t == df.rows[i]["type"] IN
    IF is_empty(t) THEN ""
    ELSE CASE strip(t.v) = BeginGroup -> "begin group"
           [] strip(t.v) = EndGroup -> "end group"
           [] strip(t.v) = BeginRepeat -> "begin repeat"
           [] strip(t.v) = EndRepeat -> "end repeat"
           [] OTHER -> ""

\* Reading the rows from row i on with the sections of `open` open: every
\* end marker closes the section opened last, and that one is of its kind
RECURSIVE NestedFrom(_, _, _)
NestedFrom(df, i, open) ==
    IF i > NRows(df) THEN TRUE
    ELSE LET m == MarkerOf(df, i)
             top == IF open = <<>> THEN "" ELSE open[Len(open)]
             rest == IF open = <<>> THEN <<>> ELSE SubSeq(open, 1, Len(open) - 1)
         IN CASE m = "begin group" -> NestedFrom(df, i + 1, Append(open, "group"))
              [] m = "begin repeat" -> NestedFrom(df, i + 1, Append(open, "repeat"))
              [] m = "end group" -> top = "group" /\ NestedFrom(df, i + 1, rest)
              [] m = "end repeat" -> top = "repeat" /\ NestedFrom(df, i + 1, rest)
              [] OTHER -> NestedFrom(df, i + 1, open)

ProperlyNested(df) == "type" \in Cols(df) /\ NestedFrom(df, 1, <<>>)

\* C17: when the markers of the input are properly nested but for closers
\* missing at the end, every end marker of the table
\* validate_group_repeat_logic returns closes the section opened last
\* before it, and that section is of its kind.
C17_OutputProperlyNested ==
    (Done("validate_group_repeat_logic") /\ ProperlyNested(arg0))
        => ProperlyNested(ret)

\* The begin rows of a kind that no later end row of the kind closes: the
\* most by which, from some row on, the begin rows outnumber the end rows
Unmatched(df, begin, end) ==
    LET excess(n) == Cardinality(MarkerRows(df, begin) \ 1..n)
                        - Cardinality(MarkerRows(df, end) \ 1..n)
    IN CHOOSE m \in 0..NRows(df) :
        /\ \E n \in 0..NRows(df) : excess(n) = m
        /\ \A n \in 0..NRows(df) : excess(n) <= m

\* A row that is blank in every column but type, where it has the marker
IsClosingRow(row, marker) ==
    \A c \in DOMAIN row : row[c] = IF c = "type" THEN Str(marker) ELSE Empty

\* C18: the table validate_group_repeat_logic returns is the input rows in
\* their order, then one 'end repeat' row for every unmatched 'begin repeat',
\* then one 'end group' row for every unmatched 'begin group'; the added
\* rows are blank but for their type. A table without a type column is
\* returned as it is.
C18_ClosersAppendedRepeatsFirst ==
    Done("validate_group_repeat_logic") =>
        IF "type" \notin Cols(arg0) THEN ret = arg0
        ELSE LET n == NRows(arg0)
                 nr == Unmatched(arg0, BeginRepeat, EndRepeat)
                 ng == Unmatched(arg0, BeginGroup, EndGroup)
             IN /\ ret.columns = arg0.columns
                /\ NRows(ret) = n + nr + ng
                /\ \A i \in 1..n : ret.rows[i] = arg0.rows[i]
                /\ \A i \in (n + 1)..(n + nr) : IsClosingRow(ret.rows[i], EndRepeat)
                /\ \A i \in (n + nr + 1)..(n + nr + ng) : IsClosingRow(ret.rows[i], EndGroup)

\* A repeat and a group were closed in a table that also had a stray
\* 'end group'
C18_Witness ==
    /\ Done("validate_group_repeat_logic")
    /\ "type" \in Cols(arg0)
    /\ Unmatched(arg0, BeginRepeat, EndRepeat) >= 1
    /\ Unmatched(arg0, BeginGroup, EndGroup) >= 1
    /\ ~NoStrayEnd(arg0, BeginGroup, EndGroup)
    /\ NRows(ret) = NRows(arg0) + 2

(* ensure_unique_names *)

\* How many of the rows 1..i have a non-blank name with the base of row i
Occurrence(df, i) ==
    Cardinality({j \in 1..i :
        /\ ~is_empty(df.rows[j]["name"])
        /\ normalize_name(df.rows[j]["name"]) = normalize_name(df.rows[i]["name"])})

\* C19: ensure_unique_names leaves a blank name as it is and does not count
\* it; the first row of a base b gets b and the k-th row of that base gets
\* b, '_' and k - 1, each base counted on its own; no other column changes.
C19_SuffixIsTheOccurrenceCount ==
    Done("ensure_unique_names") =>
        /\ NRows(ret) = NRows(arg0)
        /\ \A i \in 1..NRows(arg0) :
            LET name == arg0.rows[i]["name"]
                b == normalize_name(name)
                k == Occurrence(arg0, i)
            IN /\ ret.rows[i]["name"] =
                    IF is_empty(name) THEN name
                    ELSE IF k = 1 THEN Str(b)
                    ELSE Str(b \o <<"_">> \o IntToStr(k - 1))
               /\ \A c \in Cols(arg0) \ {"name"} : ret.rows[i][c] = arg0.rows[i][c]

\* 'A', 'A', 'a!' became 'a', 'a_1', 'a_2'
C19_Witness ==
    /\ Done("ensure_unique_names")
    /\ NRows(arg0) = 3
    /\ Column(arg0, "name") = <<Str(<<"A">>), Str(<<"A">>), Str(<<"a", "!">>)>>
    /\ Column(ret, "name") = <<Str(<<"a">>), Str(<<"a", "_", "1">>), Str(<<"a", "_", "2">>)>>

\* The non-blank names of the table are pairwise distinct
NamesUnique(df) ==
    \A i, j \in 1..NRows(df) :
        (/\ i # j
         /\ ~is_empty(df.rows[i]["name"])
         /\ ~is_empty(df.rows[j]["name"]))
        => df.rows[i]["name"] # df.rows[j]["name"]

\* C20: ensure_unique_names called on the table it returned changes no name
\* (and nothing else) when the non-blank names of that table are pairwise
\* distinct.
C20_UniqueNamesAreKept ==
    (DoneAgain("ensure_unique_names") /\ NamesUnique(arg0)) => ret = arg0

\* The second call met pairwise distinct names, one of them with a suffix
\* the first call had made, and a blank one
C20_Witness ==
    /\ DoneAgain("ensure_unique_names")
    /\ NamesUnique(arg0)
    /\ \E i, j, k \in 1..NRows(arg0) :
        /\ arg0.rows[i]["name"] = Str(<<"a">>)
        /\ arg0.rows[j]["name"] = Str(<<"a", "_", "1">>)
        /\ is_empty(arg0.rows[k]["name"])

(* normalize_language_columns *)

\* The alias columns of a canonical column, in the order the table has them
AliasesOf(df, t) ==
    LET patterns == CASE t = "label::English" -> label_english_patterns
                      [] t = "label::Arabic" -> label_arabic_patterns
                      [] t = "hint::English" -> hint_english_patterns
                      [] t = "hint::Arabic" -> hint_arabic_patterns
    IN SelectSeq(df.columns, LAMBDA c : c \in patterns /\ c # t)

\* C21: after normalize_language_columns a canonical cell holds the value it
\* had when that was not blank; otherwise the value of the first alias
\* column of its target, in the table's column order, that is not blank in
\* the row; otherwise it is blank as it was ('' when the column was made).
C21_FirstFilledAliasWins ==
    Done("normalize_language_columns") =>
        \A i \in 1..NRows(arg0), k \in DOMAIN canonical_columns :
            LET t == canonical_columns[k]
                row == arg0.rows[i]
                original == IF t \in Cols(arg0) THEN row[t] ELSE Empty
                filled == SelectSeq(AliasesOf(arg0, t), LAMBDA c : ~is_empty(row[c]))
            IN ret.rows[i][t] =
                IF ~is_empty(original) THEN original
                ELSE IF filled # <<>> THEN row[Head(filled)]
                ELSE original

\* In one row the canonical cell took the first of two filled aliases; in
\* another, where the first alias was blank, it took the second
C21_Witness ==
    /\ Done("normalize_language_columns")
    /\ arg0.columns = <<"label:English", "label::English (en)">>
    /\ \E i, j \in 1..NRows(arg0) :
        /\ ~is_empty(arg0.rows[i]["label:English"])
        /\ ~is_empty(arg0.rows[i]["label::English (en)"])
        /\ ret.rows[i]["label::English"] = arg0.rows[i]["label:English"]
        /\ is_empty(arg0.rows[j]["label:English"])
        /\ ~is_empty(arg0.rows[j]["label::English (en)"])
        /\ ret.rows[j]["label::English"] = arg0.rows[j]["label::English (en)"]

(* fix_field_types *)

\* What the three checks, made in their order on the text of a type cell,
\* leave in the cell
CheckedInOrder(cell) ==
    IF cell.v \in unsupported_types THEN Str(<<"text">>)
    ELSE IF startswith(cell.v, <<"select_one", " ">>)
    THEN IF contains(cell.v, <<"sGovernorate">>)
         THEN Str(<<"select_one", " ", "governorate">>)
         ELSE IF contains(cell.v, <<"sDistrict">>)
         THEN Str(<<"select_one", " ", "district">>)
         ELSE IF contains(cell.v, <<"sSubdistrict">>)
         THEN Str(<<"select_one", " ", "subdistrict">>)
         ELSE cell
    ELSE IF ~(\/ cell.v \in standard_types
              \/ startswith(cell.v, <<"select_multiple", " ">>))
    THEN Str(<<"text">>)
    ELSE cell

BlankField(df, c) == c \notin Cols(df) \/ is_empty(df.rows[1][c])

\* The column c of the returned settings holds v in every row
FieldIs(c, v) == c \in Cols(ret) /\ \A i \in 1..NRows(ret) : ret.rows[i][c] = v

\* The column c of the returned settings is the one that was given
FieldKept(c) == c \in Cols(ret) /\ Column(ret, c) = Column(arg0, c)

\* C23: with a settings table that has rows, a form_title that is absent or
\* blank comes back as the form name verbatim and a form_id that is absent
\* or blank comes back as normalize_name(form name); each is decided on its
\* own, and a form_title or form_id that is there and not blank is kept.
C23_TitleAndIdDerivedIndependently ==
    (Done("fix_settings_sheet") /\ arg0 # NoneDf /\ NRows(arg0) > 0) =>
        /\ NRows(ret) = NRows(arg0)
        /\ IF BlankField(arg0, "form_title")
           THEN FieldIs("form_title", Str(name_arg))
           ELSE FieldKept("form_title")
        /\ IF BlankField(arg0, "form_id")
           THEN FieldIs("form_id", Str(normalize_name(Str(name_arg))))
           ELSE FieldKept("form_id")

\* Settings with a blank title and an identifier of their own, and a form
\* name that normalize_name changes: the title was derived, the identifier
\* kept
C23_Witness ==
    /\ Done("fix_settings_sheet")
    /\ arg0 # NoneDf
    /\ NRows(arg0) = 1
    /\ {"form_title", "form_id"} \subseteq Cols(arg0)
    /\ is_empty(arg0.rows[1]["form_title"])
    /\ arg0.rows[1]["form_id"] = Str(<<"i", "d">>)
    /\ name_arg = <<"M", "y", " ", "F", "-", "1">>
    /\ normalize_name(Str(name_arg)) # name_arg
    /\ ret.rows[1]["form_title"] = Str(name_arg)
    /\ ret.rows[1]["form_id"] = Str(<<"i", "d">>)

(* fix_cascading_selects, no choices *)

\* C24: given no choices table, or one without rows, fix_cascading_selects
\* returns the seed hierarchy of nine rows and nothing else: its rows, its
\* columns and its index are those of create_standard_location_choices.
C24_NoChoicesGiveTheSeedAlone ==
    (/\ stage = "fix_cascading_selects"
     /\ pc # "call"
     /\ arg0 = NoneDf \/ NRows(arg0) = 0) =>
        /\ pc = "returned"
        /\ NRows(create_standard_location_choices) = 9
        /\ ret = create_standard_location_choices

\* A table of three columns without rows, one of the columns not a seed
\* column, was given and nine rows came back
C24_Witness ==
    /\ Done("fix_cascading_selects")
    /\ arg0 # NoneDf
    /\ NRows(arg0) = 0
    /\ arg0.columns = <<"list_name", "name", "label">>
    /\ NRows(ret) = 9

(* validate_group_repeat_logic, called again *)

\* C26: validate_group_repeat_logic called on the table it returned appends
\* no row: the rows come back as they were given, whatever the first table
\* was, stray end markers included.
C26_SecondCallAppendsNothing ==
    DoneAgain("validate_group_repeat_logic") =>
        /\ NRows(ret) = NRows(arg0)
        /\ ret.rows = arg0.rows

\* The second call met a stray 'end group' and, at the end, the closing rows
\* the first call had appended for a repeat and a group
C26_Witness ==
    /\ DoneAgain("validate_group_repeat_logic")
    /\ NRows(arg0) >= 3
    /\ ~NoStrayEnd(arg0, BeginGroup, EndGroup)
    /\ IsClosingRow(arg0.rows[NRows(arg0) - 1], EndRepeat)
    /\ IsClosingRow(arg0.rows[NRows(arg0)], EndGroup)

(* validate_group_repeat_logic, the number of rows appended *)

\* The begin rows of a kind beyond its end rows
Excess(df, begin, end) == CountRows(df, begin) - CountRows(df, end)

\* C27: when no 'end group' stands where no group is open and no 'end
\* repeat' where no repeat is open, validate_group_repeat_logic appends as
\* many rows as the begin rows of the two kinds exceed their end rows and
\* the returned table has as many begin as end rows of each kind.  An end
\* marker met while nothing of its kind is open is ignored and never made up
\* for: no begin row is added, and the end rows of that kind outnumber the
\* begin rows in the returned table.
C27_AppendsTheExcessOfBegins ==
    (Done("validate_group_repeat_logic") /\ "type" \in Cols(arg0)) =>
        /\ (/\ NoStrayEnd(arg0, BeginGroup, EndGroup)
            /\ NoStrayEnd(arg0, BeginRepeat, EndRepeat))
            => /\ NRows(ret) - NRows(arg0)
                    = Excess(arg0, BeginGroup, EndGroup)
                        + Excess(arg0, BeginRepeat, EndRepeat)
               /\ Excess(ret, BeginGroup, EndGroup) = 0
               /\ Excess(ret, BeginRepeat, EndRepeat) = 0
        /\ CountRows(ret, BeginGroup) = CountRows(arg0, BeginGroup)
        /\ CountRows(ret, BeginRepeat) = CountRows(arg0, BeginRepeat)
        /\ ~NoStrayEnd(arg0, BeginGroup, EndGroup)
            => Excess(ret, BeginGroup, EndGroup) < 0
        /\ ~NoStrayEnd(arg0, BeginRepeat, EndRepeat)
            => Excess(ret, BeginRepeat, EndRepeat) < 0

\* Two groups were open at the end of a table that also has a closed repeat
\* and no stray end marker, and two rows were appended
C27_Witness ==
    /\ Done("validate_group_repeat_logic")
    /\ "type" \in Cols(arg0)
    /\ NoStrayEnd(arg0, BeginGroup, EndGroup)
    /\ NoStrayEnd(arg0, BeginRepeat, EndRepeat)
    /\ CountRows(arg0, EndRepeat) = 1
    /\ Excess(arg0, BeginGroup, EndGroup) = 2
    /\ Excess(arg0, BeginRepeat, EndRepeat) = 0
    /\ NRows(ret) = NRows(arg0) + 2

(* clean_calculation_fields, the cells left alone *)

\* C28: clean_calculation_fields changes nothing but the type and the
\* calculation cell of rows with a denylist fragment in one of the five
\* checked columns: a row without one comes back as it was, and in a row
\* with one every other cell, the required, relevant, constraint or
\* choice_filter cell that holds the fragment included, keeps its value.
C28_OnlyTypeAndCalculationChange ==
    Done("clean_calculation_fields") =>
        /\ ret.columns = arg0.columns
        /\ ret.index = arg0.index
        /\ \A i \in 1..NRows(arg0) :
            IF Flagged(arg0, i)
            THEN \A c \in Cols(arg0) \ {"type", "calculation"} :
                    ret.rows[i][c] = arg0.rows[i][c]
            ELSE ret.rows[i] = arg0.rows[i]

\* A row with a fragment in its relevant cell was made a text row, the
\* fragment still in the cell, beside a row without a fragment
C28_Witness ==
    /\ Done("clean_calculation_fields")
    /\ arg0.columns = <<"type", "calculation", "relevant">>
    /\ \E i, j \in 1..NRows(arg0) :
        /\ arg0.rows[i]["relevant"] = Str(<<"a", "(*1)">>)
        /\ arg0.rows[i]["type"] = Str(<<"calculate">>)
        /\ ret.rows[i]["type"] = Str(<<"text">>)
        /\ ret.rows[i]["relevant"] = Str(<<"a", "(*1)">>)
        /\ ~Flagged(arg0, j)
        /\ ~is_empty(arg0.rows[j]["calculation"])

(* The wizard at the Export step *)

\* The eight survey stages in the order of the steps 3 to 9 and 12, each
\* given what the one before it returned
SurveyPipeline(survey) ==
    LET language == normalize_language_columns(survey).ret
        types == fix_field_types(language).ret
        fallbacks == apply_fallbacks(types).ret
        expressions == clean_calculation_fields(fallbacks).ret
        defaults == clean_default_values(expressions).ret
        names == ensure_unique_names(defaults).ret
        groups == validate_group_repeat_logic(names).ret
    IN remove_redundant_columns(groups).ret

\* The three choices stages in the order of the steps 3, 10 and 12
ChoicesPipeline(choices) ==
    LET language == IF choices = NoneDf THEN NoneDf
                    ELSE normalize_language_columns(choices).ret
        cascading == IF language = NoneDf THEN create_standard_location_choices
                     ELSE fix_cascading_selects(language).ret
    IN remove_redundant_columns(cascading).ret

\* No entry of edited_dfs comes from an uploaded CSV: the entries are those
\* of the three editors of the load step
NoEditUploaded(ss) == DOMAIN ss["edited_dfs"] \subseteq {"survey", "choices", "settings"}

AtExport(ss) == ss["current_step"] = 12 /\ Buttons(ss)

\* C25: with no edited table uploaded, whenever the wizard shows the Export
\* step the final survey is the survey the load step left in the session
\* taken through the language, type, fallback, expression, default, name,
\* group and pruning stages in that order, the final choices are the loaded
\* choices taken through the language, cascading and pruning stages, and the
\* final settings are fix_settings_sheet of the loaded settings and the form
\* name: no result of a stage computed from an earlier input is left after
\* going Back.
C25_ExportHoldsThePipelineOfTheLoadedTables ==
    (AtExport(session_state) /\ NoEditUploaded(session_state)) =>
        /\ session_state["final_survey_df"]
            = SurveyPipeline(session_state["survey_df"])
        /\ session_state["final_choices_df"]
            = ChoicesPipeline(session_state["choices_df"])
        /\ session_state["fixed_settings_df"]
            = fix_settings_sheet(session_state["settings_df"],
                                 session_state["form_name"]).ret

\* The Export step of a second workbook, loaded after going Back to the
\* upload step from a first one with other sheets
C25_Witness ==
    /\ AtExport(session_state)
    /\ NoEditUploaded(session_state)
    /\ uploads = 2
    /\ session_state["form_name"] = <<"f">>
    /\ NRows(session_state["final_survey_df"]) = 1

(* The wizard's stages and their inputs *)

\* The session tables the stage of a step is given
StageInputs ==
    [k \in 2..11 |->
        CASE k = 2 -> {"survey_df", "choices_df"}
          [] k = 3 -> {"normalized_survey_df"}
          [] k = 4 -> {"fixed_survey_df"}
          [] k = 5 -> {"fallback_survey_df"}
          [] k = 6 -> {"calculation_survey_df"}
          [] k = 7 -> {"defaults_survey_df"}
          [] k = 8 -> {"names_survey_df"}
          [] k = 9 -> {"normalized_choices_df"}
          [] k = 10 -> {"settings_df"}
          [] k = 11 -> {"groups_survey_df", "cascading_choices_df"}]

\* This step ran the stage of step k: it shows step k, whose flag was not
\* set before and is set now
StageRan(k) ==
    /\ session_state'["current_step"] = k
    /\ StepFlag[k] \notin DOMAIN session_state
    /\ StepFlag[k] \in DOMAIN session_state'

\* The session the "Next" handler leaves for the rerun
Handed ==
    take_edits(session_state, session_state["current_step"],
               StepEdits[session_state["current_step"]])

\* This step went Back from step k to step k - 1
WentBack(k) ==
    /\ session_state["current_step"] = k
    /\ session_state'["current_step"] = k - 1

\* C29: every stage of the wizard is called on a copy of its input: a step
\* that runs the stage of step k leaves the session tables the stage is given
\* as the Next handler left them, and going Back from a step shows the
\* tables of the step before as they were.
C29_StagesLeaveTheirInputs ==
    [][/\ \A k \in 2..11 :
            StageRan(k) =>
                \A key \in StageInputs[k] : session_state'[key] = Handed[key]
       /\ \A k \in 3..12 :
            WentBack(k) =>
                \A e \in Range(StepEdits[k - 1]) :
                    session_state'[e[2]] = session_state[e[2]]]_vars

\* The type stage has run and made 'text' of the 'deviceid' of a row; the
\* stored table it was given still says 'deviceid'
C29_Witness ==
    /\ session_state["current_step"] = 3
    /\ "field_types_fixed" \in DOMAIN session_state
    /\ \E i \in 1..NRows(session_state["normalized_survey_df"]) :
        /\ session_state["normalized_survey_df"].rows[i]["type"] = Str(<<"deviceid">>)
        /\ session_state["fixed_survey_df"].rows[i]["type"] = Str(<<"text">>)

(* Uploaded edits *)

\* The entries of edited_dfs that come from uploaded CSV files
CsvKeys(ss) == DOMAIN ss["edited_dfs"] \ {"survey", "choices", "settings"}

\* This step is "Start Over"
StartedOver ==
    /\ session_state["current_step"] = 12
    /\ session_state'["current_step"] = 0

\* This step put a file into the uploader of the key
UploadedTo(key) ==
    /\ uploads' = uploads + 1
    /\ uploader' # NoneDf
    /\ uploader'.key = key

====
